---- MODULE Spec2Model ----
(***************************************************************************)
(* A model of invoice-parser-pro: the PDF parser's financial extraction    *)
(* and reconciliation, its line-item extraction and validator, the         *)
(* InvoiceDataNormalizer, the confidence scorer with the v2 edit store,    *)
(* the bulk-parse endpoint, and the webhook sender.                        *)
(*                                                                         *)
(* Money is counted in cents (every amount the parser's patterns capture   *)
(* has exactly two decimals), a percentage in hundredths of a percent.     *)
(* Strings the code inspects character by character are sequences of       *)
(* one-character strings.                                                  *)
(***************************************************************************)
EXTENDS Integers, Sequences, FiniteSets, TLC

VARIABLES
    fin, finOut, fpc,              \* reconciliation of drawn figures
    text, tables, ppc, result,     \* PdfPlumberParser.parse on one document
    raw_parsed_data, normalized, renormalized, npc, now,
                                   \* InvoiceDataNormalizer.normalize, applied twice
    parsed, context, conf_map, overall, cpc,
                                   \* compute_field_confidences and overall_confidence
    redis, workers,                \* the invoice:<id>:parsed keys of the v2 API,
                                   \* and the PATCH each worker process handles
    files, file_index, results, successful_parses, response, bpc,
                                   \* parse_bulk_invoices on one batch
    MAX_ATTEMPTS, attempt, responses, sleeps, returned, wpc,
                                   \* send_webhook on one payload
    parser, upload, tmpdir, temp_path, parser_raised, parsed_dict, repository,
    executed, upc,                 \* ParseInvoiceUseCase.execute on one upload
    sessions, cookie, minted, reply
                                   \* SessionManager and the client's cookie

finVars == <<fin, finOut, fpc>>
parseVars == <<text, tables, ppc, result>>
normVars == <<raw_parsed_data, normalized, renormalized, npc, now>>
scoreVars == <<parsed, context, conf_map, overall, cpc>>
storeVars == <<redis, workers>>
bulkVars == <<files, file_index, results, successful_parses, response, bpc>>
webhookVars == <<MAX_ATTEMPTS, attempt, responses, sleeps, returned, wpc>>
useVars ==
    <<parser, upload, tmpdir, temp_path, parser_raised, parsed_dict, repository,
      executed, upc>>
sessVars == <<sessions, cookie, minted, reply>>
vars ==
    <<finVars, parseVars, normVars, scoreVars, storeVars, bulkVars, webhookVars,
      useVars, sessVars>>

None == "None"

\* Each specification runs one part of the program; the others stay idle.
FinIdle == fin = None /\ finOut = None /\ fpc = "idle"

ParseIdle == text = <<>> /\ tables = <<>> /\ ppc = "idle" /\ result = None

NormIdle ==
    /\ raw_parsed_data = None /\ normalized = None /\ renormalized = None
    /\ npc = "idle" /\ now = 0

ScoreIdle ==
    /\ parsed = None /\ context = None /\ conf_map = None /\ overall = None
    /\ cpc = "idle"

StoreIdle == redis = None /\ workers = None

BulkIdle ==
    /\ files = <<>> /\ file_index = 0 /\ results = <<>> /\ successful_parses = 0
    /\ response = None
    /\ bpc = "idle"

\* send_webhook has not returned: no result yet.
NotReturned == [pending |-> TRUE]

WebhookIdle ==
    /\ MAX_ATTEMPTS = 0 /\ attempt = 0 /\ responses = <<>> /\ sleeps = <<>>
    /\ returned = NotReturned
    /\ wpc = "idle"

UseIdle ==
    /\ parser = None /\ upload = None /\ tmpdir = None /\ temp_path = None
    /\ parser_raised = None /\ parsed_dict = None /\ repository = None
    /\ executed = None
    /\ upc = "idle"

SessIdle == sessions = None /\ cookie = None /\ minted = 0 /\ reply = None

exceptFin == <<parseVars, normVars, scoreVars, storeVars, bulkVars, webhookVars, useVars,
    sessVars>>
exceptParse == <<finVars, normVars, scoreVars, storeVars, bulkVars, webhookVars, useVars,
    sessVars>>
exceptNorm == <<finVars, parseVars, scoreVars, storeVars, bulkVars, webhookVars, useVars,
    sessVars>>
exceptScore == <<finVars, parseVars, normVars, storeVars, bulkVars, webhookVars, useVars,
    sessVars>>
exceptStore == <<finVars, parseVars, normVars, scoreVars, bulkVars, webhookVars, useVars,
    sessVars>>
exceptBulk == <<finVars, parseVars, normVars, scoreVars, storeVars, webhookVars, useVars,
    sessVars>>
exceptWebhook == <<finVars, parseVars, normVars, scoreVars, storeVars, bulkVars, useVars,
    sessVars>>
exceptUse == <<finVars, parseVars, normVars, scoreVars, storeVars, bulkVars, webhookVars,
    sessVars>>
exceptSess == <<finVars, parseVars, normVars, scoreVars, storeVars, bulkVars, webhookVars,
    useVars>>

OthersIdleFin ==
    ParseIdle /\ NormIdle /\ ScoreIdle /\ StoreIdle /\ BulkIdle /\ WebhookIdle /\ UseIdle
    /\ SessIdle
OthersIdleParse ==
    FinIdle /\ NormIdle /\ ScoreIdle /\ StoreIdle /\ BulkIdle /\ WebhookIdle /\ UseIdle
    /\ SessIdle
OthersIdleNorm ==
    FinIdle /\ ParseIdle /\ ScoreIdle /\ StoreIdle /\ BulkIdle /\ WebhookIdle /\ UseIdle
    /\ SessIdle
OthersIdleScore ==
    FinIdle /\ ParseIdle /\ NormIdle /\ StoreIdle /\ BulkIdle /\ WebhookIdle /\ UseIdle
    /\ SessIdle
OthersIdleStore ==
    FinIdle /\ ParseIdle /\ NormIdle /\ ScoreIdle /\ BulkIdle /\ WebhookIdle /\ UseIdle
    /\ SessIdle
OthersIdleBulk ==
    FinIdle /\ ParseIdle /\ NormIdle /\ ScoreIdle /\ StoreIdle /\ WebhookIdle /\ UseIdle
    /\ SessIdle
OthersIdleWebhook ==
    FinIdle /\ ParseIdle /\ NormIdle /\ ScoreIdle /\ StoreIdle /\ BulkIdle /\ UseIdle
    /\ SessIdle
OthersIdleUse ==
    FinIdle /\ ParseIdle /\ NormIdle /\ ScoreIdle /\ StoreIdle /\ BulkIdle /\ WebhookIdle
    /\ SessIdle
OthersIdleSess ==
    FinIdle /\ ParseIdle /\ NormIdle /\ ScoreIdle /\ StoreIdle /\ BulkIdle /\ WebhookIdle
    /\ UseIdle

(***************************************************************************)
(* Bounds of the model.                                                    *)
(***************************************************************************)
MaxCents == 3
MaxPages == 4
MaxFiles == 3
MaxRetries == 9
MaxTokens == 5

(***************************************************************************)
(* Generic helpers.                                                        *)
(***************************************************************************)
Abs(n) == IF n < 0 THEN -n ELSE n

\* The element of a singleton set: The({F(x) : x \in {e}}) is F(e) with e evaluated
\* once, however often F uses its argument.
The(S) == CHOOSE x \in S : TRUE

Min(a, b) == IF a < b THEN a ELSE b

\* Decimal.quantize under the default context: ROUND_HALF_EVEN of n/d, d > 0, n >= 0.
RoundHalfEven(n, d) ==
    LET q == n \div d
        r == n % d
    IN  IF 2 * r < d THEN q
        ELSE IF 2 * r > d THEN q + 1
        ELSE IF q % 2 = 0 THEN q ELSE q + 1

(***************************************************************************)
(* Strings as sequences of characters, and the str/re operations the code  *)
(* applies to them.                                                        *)
(***************************************************************************)
Digits == <<"0", "1", "2", "3", "4", "5", "6", "7", "8", "9">>

UpperLetters ==
    <<"A", "B", "C", "D", "E", "F", "G", "H", "I", "J", "K", "L", "M",
      "N", "O", "P", "Q", "R", "S", "T", "U", "V", "W", "X", "Y", "Z">>

LowerLetters ==
    <<"a", "b", "c", "d", "e", "f", "g", "h", "i", "j", "k", "l", "m",
      "n", "o", "p", "q", "r", "s", "t", "u", "v", "w", "x", "y", "z">>

Range(s) == {s[i] : i \in DOMAIN s}

DigitSet == Range(Digits)

UpperSet == Range(UpperLetters)

AlphaSet == Range(UpperLetters) \cup Range(LowerLetters)

LowerOf == [c \in UpperSet |->
               LowerLetters[CHOOSE i \in DOMAIN UpperLetters : UpperLetters[i] = c]]

IsDigit(c) == c \in DigitSet

IsUpper(c) == c \in UpperSet

IsAlpha(c) == c \in AlphaSet

\* \w of the re module (ASCII letters, digits, underscore).
IsWord(c) == IsAlpha(c) \/ IsDigit(c) \/ c = "_"

\* \s of the re module, and the characters str.strip removes.
SpaceSet == {" ", "\t", "\n"}

IsSpace(c) == c \in SpaceSet

\* str.lower on one character.
Lower(c) == IF c \in UpperSet THEN LowerOf[c] ELSE c

\* str.lower.
LowerSeq(s) == [i \in DOMAIN s |-> Lower(s[i])]

SetMin(S) == CHOOSE x \in S : \A y \in S : x <= y

SetMax(S) == CHOOSE x \in S : \A y \in S : y <= x

\* str.strip.
Strip(s) ==
    LET keep == {i \in DOMAIN s : ~IsSpace(s[i])}
    IN  IF keep = {} THEN <<>> ELSE SubSeq(s, SetMin(keep), SetMax(keep))

\* sub occurs in s at position i.
OccursAt(s, sub, i) ==
    /\ i >= 1
    /\ i + Len(sub) - 1 <= Len(s)
    /\ SubSeq(s, i, i + Len(sub) - 1) = sub

\* Python's "sub in s".
Contains(s, sub) == \E i \in 1 .. (Len(s) + 1) : OccursAt(s, sub, i)

\* str.endswith.
EndsWith(s, sub) == OccursAt(s, sub, Len(s) - Len(sub) + 1)

\* str.replace(c, "") for every character c of cs.
RemoveChars(s, cs) == SelectSeq(s, LAMBDA c : c \notin cs)

DigitValueOf == [c \in DigitSet |-> (CHOOSE i \in DOMAIN Digits : Digits[i] = c) - 1]

DigitValue(c) == DigitValueOf[c]

RECURSIVE DigitsValue(_)
DigitsValue(s) ==
    IF s = <<>> THEN 0
    ELSE 10 * DigitsValue(SubSeq(s, 1, Len(s) - 1)) + DigitValue(s[Len(s)])

(***************************************************************************)
(* Decimal(str): the strings of signs, digits and one point the constructor*)
(* accepts, with at most two fraction digits, read in hundredths. Any other*)
(* string over the model's alphabet makes it raise InvalidOperation.       *)
(***************************************************************************)
DecimalBody(s) ==
    LET t == Strip(s)
    IN  IF t # <<>> /\ t[1] \in {"+", "-"} THEN Tail(t) ELSE t

DecimalNegative(s) == LET t == Strip(s) IN t # <<>> /\ t[1] = "-"

DecimalSyntax(s) ==
    LET b == DecimalBody(s)
        points == {i \in DOMAIN b : b[i] = "."}
    IN  /\ b # <<>>
        /\ \A i \in DOMAIN b : IsDigit(b[i]) \/ b[i] = "."
        /\ Cardinality(points) <= 1
        /\ \E i \in DOMAIN b : IsDigit(b[i])
        /\ \A i \in points : Len(b) - i <= 2

DecimalHundredths(s) ==
    LET b == DecimalBody(s)
        points == {i \in DOMAIN b : b[i] = "."}
        p == IF points = {} THEN Len(b) + 1 ELSE SetMin(points)
        whole == DigitsValue(SubSeq(b, 1, p - 1))
        frac == SubSeq(b, p + 1, Len(b))
        cents == IF Len(frac) = 0 THEN 0
                 ELSE IF Len(frac) = 1 THEN 10 * DigitsValue(frac)
                 ELSE DigitsValue(frac)
        v == 100 * whole + cents
    IN  IF DecimalNegative(s) THEN -v ELSE v

(***************************************************************************)
(* PdfPlumberParser.extract_financials_with_validation, second half: the   *)
(* cross-derivation rules applied to the extracted figures.                *)
(***************************************************************************)
ZeroFinancials ==
    [subtotal |-> 0, discount |-> 0, discount_percentage |-> 0,
     shipping |-> 0, tax |-> 0, final_total |-> 0]

\* discount / subtotal * 100, quantized to 0.01 (hundredths of a percent).
PercentOf(discount, subtotal) == RoundHalfEven(discount * 10000, subtotal)

\* Rule 1: discount from percentage.
DiscountFromPercentage(f) ==
    IF f.discount = 0 /\ f.discount_percentage > 0 /\ f.subtotal > 0
    THEN [f EXCEPT !.discount = RoundHalfEven(f.subtotal * f.discount_percentage, 10000)]
    ELSE f

\* Rule 2: percentage from discount.
PercentageFromDiscount(f) ==
    IF f.discount_percentage = 0 /\ f.discount > 0 /\ f.subtotal > 0
    THEN [f EXCEPT !.discount_percentage = PercentOf(f.discount, f.subtotal)]
    ELSE f

\* A plausible slip: the tolerance test dropped, every positive delta is a discount.
InferDiscountNoTolerance(f) ==
    LET before == f.subtotal + f.shipping + f.tax
        potential == before - f.final_total
    IN  IF f.final_total > 0 /\ f.discount = 0 /\ before > f.final_total
        THEN [f EXCEPT !.discount = potential,
                       !.discount_percentage =
                           IF f.subtotal > 0 THEN PercentOf(potential, f.subtotal) ELSE @]
        ELSE f

\* A plausible slip: the totals not compared, every non-zero delta is a discount.
InferDiscountUnguarded(f) ==
    LET before == f.subtotal + f.shipping + f.tax
        potential == before - f.final_total
    IN  IF f.final_total > 0 /\ f.discount = 0 /\ potential # 0
        THEN [f EXCEPT !.discount = potential,
                       !.discount_percentage =
                           IF f.subtotal > 0 THEN PercentOf(Abs(potential), f.subtotal) ELSE @]
        ELSE f

\* Rule 3: discount inferred from the totals, tolerance 0.01 (1 cent).
InferDiscount(f) ==
    LET before == f.subtotal + f.shipping + f.tax
        potential == before - f.final_total
    IN  IF f.final_total > 0 /\ f.discount = 0 /\ before > f.final_total
           /\ potential > 1
        THEN [f EXCEPT !.discount = potential,
                       !.discount_percentage =
                           IF f.subtotal > 0 THEN PercentOf(potential, f.subtotal) ELSE @]
        ELSE f

Reconcile(f) ==
    The({InferDiscount(f2) :
            f2 \in {PercentageFromDiscount(f1) :
                        f1 \in {DiscountFromPercentage(f0) : f0 \in {f}}}})

(***************************************************************************)
(* Reconciliation applied to drawn figures.                                *)
(***************************************************************************)
ScenarioAmounts == {800, 1000, 10000, 10620, 11800}

FinAmounts == (0 .. MaxCents) \cup ScenarioAmounts

FinDiscounts == {0, 2, 1180}

FinPercentages == {0, 1000, 1180}

FinInputs ==
    [subtotal : FinAmounts, discount : FinDiscounts,
     discount_percentage : FinPercentages,
     shipping : {1, 2, 1000}, tax : {1, 800}, final_total : FinAmounts]
    \cup
    [subtotal : FinAmounts, discount : {0}, discount_percentage : {0},
     shipping : FinAmounts, tax : FinAmounts, final_total : FinAmounts]

InitFin ==
    /\ fin \in FinInputs
    /\ finOut = None
    /\ fpc = "extracted"
    /\ OthersIdleFin

ApplyReconcile ==
    /\ fpc = "extracted"
    /\ finOut' = Reconcile(fin)
    /\ fpc' = "done"
    /\ UNCHANGED <<fin, exceptFin>>

NextFin == ApplyReconcile

SpecFin == InitFin /\ [][NextFin]_vars

FinDelta == fin.subtotal + fin.shipping + fin.tax - fin.final_total

FinAllPositive ==
    fin.subtotal > 0 /\ fin.shipping > 0 /\ fin.tax > 0 /\ fin.final_total > 0

\* C1 as stated: with subtotal, shipping, tax and final_total all positive and
\* discount_amount 0 before reconciliation, the reconciled discount is the delta
\* (subtotal + shipping + tax) - final_total when that exceeds 0.01, and 0 otherwise.
C1_AsStated ==
    (fpc = "done" /\ FinAllPositive /\ fin.discount = 0)
        => finOut.discount = (IF FinDelta > 1 THEN FinDelta ELSE 0)

\* C1 amended: the same, for figures whose extracted discount_percentage is 0 too
\* (so that rule 1 derives nothing from a percentage label).
C1_DiscountInference ==
    (fpc = "done" /\ FinAllPositive /\ fin.discount = 0 /\ fin.discount_percentage = 0)
        => finOut.discount = (IF FinDelta > 1 THEN FinDelta ELSE 0)

\* Scenario B: 100.00 + 10.00 + 8.00 against a total of 106.20 infers 11.80 (11.80 %).
C1_Witness ==
    /\ fpc = "done"
    /\ fin = [subtotal |-> 10000, discount |-> 0, discount_percentage |-> 0,
              shipping |-> 1000, tax |-> 800, final_total |-> 10620]
    /\ finOut.discount = 1180
    /\ finOut.discount_percentage = 1180

\* C14: explicit labels win over derivation: a discount amount or a discount
\* percentage extracted non-zero from its own label is left as extracted by the
\* cross-derivation rules 1-3.
C14_ExplicitLabelsWin ==
    (fpc = "done") =>
        /\ (fin.discount # 0) => (finOut.discount = fin.discount)
        /\ (fin.discount_percentage # 0) =>
               (finOut.discount_percentage = fin.discount_percentage)

(***************************************************************************)
(* The document handed to PdfPlumberParser.parse: its text, line by line,  *)
(* and its tables.                                                         *)
(*                                                                         *)
(* A text line is "<label>: $<amount>" (kind "amount", amt in cents) or    *)
(* "Discount (<p>%)" (kind "percent", amt in hundredths of a percent).     *)
(* A table holds the roles its header was mapped to (cols) and its rows;   *)
(* a cell is a string or None (an empty PDF cell).                         *)
(***************************************************************************)
L_BalanceDue == <<"B", "a", "l", "a", "n", "c", "e", " ", "D", "u", "e">>

L_Total == <<"T", "o", "t", "a", "l">>

L_AmountDue == <<"A", "m", "o", "u", "n", "t", " ", "D", "u", "e">>

L_Subtotal == <<"S", "u", "b", "t", "o", "t", "a", "l">>

L_Shipping == <<"S", "h", "i", "p", "p", "i", "n", "g">>

L_Tax == <<"T", "a", "x">>

L_Discount == <<"D", "i", "s", "c", "o", "u", "n", "t">>

L_Savings == <<"S", "a", "v", "i", "n", "g", "s">>

L_Deduction == <<"D", "e", "d", "u", "c", "t", "i", "o", "n">>

L_Less == <<"L", "e", "s", "s">>

AmountLine(label, amt) == [kind |-> "amount", label |-> label, amt |-> amt]

PercentLine(p) == [kind |-> "percent", label |-> L_Discount, amt |-> p]

SampleLines ==
    {AmountLine(L_Subtotal, 10000), AmountLine(L_Shipping, 1000),
     AmountLine(L_Tax, 800), AmountLine(L_BalanceDue, 11800),
     AmountLine(L_Total, 11800),
     AmountLine(L_AmountDue, 2000), AmountLine(L_Discount, 1180),
     PercentLine(1000)}

\* re.search(r"<label>:\s*\$?\s*([\d,]+\.\d{2})", text, re.IGNORECASE) on one line:
\* the label must end right before the colon, whatever precedes it.
LabelMatches(line, label) ==
    line.kind = "amount" /\ EndsWith(LowerSeq(line.label), LowerSeq(label))

\* r"Discount\s*[^:\n]*:\s*\$?\s*([\d,]+\.\d{2})": "discount" anywhere before the colon.
DiscountLabelMatches(line) ==
    line.kind = "amount" /\ Contains(LowerSeq(line.label), LowerSeq(L_Discount))

\* r"Discount\s*\(?(\d+\.?\d*)%?\)?": "Discount" followed by the digits of a percentage.
DiscountPercentMatches(line) == line.kind = "percent"

\* re.search: the first line of the text that matches, 0 when none does.
First(hits) == IF hits = {} THEN 0 ELSE SetMin(hits)

\* The first line an amount follows the label on.
FirstLine(txt, label) == First({i \in DOMAIN txt : LabelMatches(txt[i], label)})

Captured(txt, i) == IF i = 0 THEN 0 ELSE txt[i].amt

\* A plausible slip: the "total" label tried before "balance due".
FinalTotalTotalFirst(txt) ==
    LET balance_due == FirstLine(txt, L_BalanceDue)
        total == FirstLine(txt, L_Total)
        amount_due == FirstLine(txt, L_AmountDue)
    IN  IF total # 0 THEN txt[total].amt
        ELSE IF balance_due # 0 THEN txt[balance_due].amt
        ELSE IF amount_due # 0 THEN txt[amount_due].amt
        ELSE 0

\* final_total: balance due, else total, else amount due.
FinalTotal(txt) ==
    LET balance_due == FirstLine(txt, L_BalanceDue)
        total == FirstLine(txt, L_Total)
        amount_due == FirstLine(txt, L_AmountDue)
    IN  IF balance_due # 0 THEN txt[balance_due].amt
        ELSE IF total # 0 THEN txt[total].amt
        ELSE IF amount_due # 0 THEN txt[amount_due].amt
        ELSE 0

\* The discount-amount cascade: the first pattern that matches anywhere wins.
\* The second pattern of the list (amount, percentage, "discount") needs digits
\* right after an amount: no label or percentage line has them, and an item line
\* has them only before the end of the line, which no "Discount" line follows in
\* the documents read here.
DiscountAmount(txt) ==
    LET by_label == First({i \in DOMAIN txt : DiscountLabelMatches(txt[i])})
        savings == FirstLine(txt, L_Savings)
        deduction == FirstLine(txt, L_Deduction)
        less == FirstLine(txt, L_Less)
    IN  IF by_label # 0 THEN txt[by_label].amt
        ELSE IF savings # 0 THEN txt[savings].amt
        ELSE IF deduction # 0 THEN txt[deduction].amt
        ELSE IF less # 0 THEN txt[less].amt
        ELSE 0

\* The figures as extracted from their labels, before the cross-derivation rules.
ExtractLabelled(txt) ==
    [subtotal |-> Captured(txt, FirstLine(txt, L_Subtotal)),
     discount |-> DiscountAmount(txt),
     discount_percentage |-> Captured(txt, First({i \in DOMAIN txt : DiscountPercentMatches(txt[i])})),
     shipping |-> Captured(txt, FirstLine(txt, L_Shipping)),
     tax |-> Captured(txt, FirstLine(txt, L_Tax)),
     final_total |-> FinalTotal(txt)]

extract_financials_with_validation(txt) == Reconcile(ExtractLabelled(txt))

(***************************************************************************)
(* PdfPlumberParser.extract_metadata_with_fallbacks on these lines. Every  *)
(* line starts with its label, upper-case first, so the first vendor       *)
(* pattern (anchored at the start of the text) captures the label of the   *)
(* first line; no line holds a date or an invoice number.                  *)
(***************************************************************************)
S_UnknownVendor ==
    <<"U", "n", "k", "n", "o", "w", "n", " ", "V", "e", "n", "d", "o", "r">>

S_NA == <<"N", "/", "A">>

S_USD == <<"U", "S", "D">>

\* The run of [A-Za-z\s&] characters a string starts with.
RECURSIVE LetterRun(_)
LetterRun(s) ==
    IF s # <<>> /\ (IsAlpha(s[1]) \/ IsSpace(s[1]) \/ s[1] = "&")
    THEN <<s[1]>> \o LetterRun(Tail(s))
    ELSE <<>>

extract_metadata_with_fallbacks(txt) ==
    IF txt # <<>> /\ IsUpper(txt[1].label[1]) /\ Len(LetterRun(txt[1].label)) >= 2
    THEN [vendor |-> Strip(LetterRun(txt[1].label))]
    ELSE << >>

\* dict.get(key, default) on a record.
Get(d, key, default) == IF key \in DOMAIN d THEN d[key] ELSE default

(***************************************************************************)
(* Line items: parse_table_to_line_items with _is_header_row and           *)
(* _safe_decimal, and extract_structured_line_items.                       *)
(***************************************************************************)
\* pdfplumber's None for an empty cell.
NoCell == <<None>>

S_None == <<"N", "o", "n", "e">>

\* str(cell).
Str(cell) == IF cell = NoCell THEN S_None ELSE cell

Roles == {"description", "quantity", "unit_price", "amount"}

HeaderIndicators ==
    {<<"i", "t", "e", "m">>,
     <<"d", "e", "s", "c", "r", "i", "p", "t", "i", "o", "n">>,
     <<"q", "u", "a", "n", "t", "i", "t", "y">>,
     <<"p", "r", "i", "c", "e">>,
     <<"a", "m", "o", "u", "n", "t">>,
     <<"t", "o", "t", "a", "l">>}

\* _is_header_row: the indicators hold no space, so one of them is in the joined
\* row text exactly when it is in one of the non-empty cells.
_is_header_row(table, row) ==
    \/ table.cols = {}
    \/ \E role \in table.cols :
          /\ row[role] # NoCell
          /\ row[role] # <<>>
          /\ \E ind \in HeaderIndicators : Contains(LowerSeq(row[role]), ind)

\* row.get(role, default).
RowGet(table, row, role, default) ==
    IF role \in table.cols THEN row[role] ELSE default

\* _safe_decimal: Decimal raises InvalidOperation, an ArithmeticError, which the
\* handlers for (ValueError, TypeError) do not catch.
DecimalOrRaise(clean_value) ==
    IF DecimalSyntax(clean_value)
    THEN [raised |-> FALSE, value |-> DecimalHundredths(clean_value)]
    ELSE [raised |-> TRUE, value |-> 0]

_safe_decimal(value) ==
    IF value = NoCell \/ value = <<>>
    THEN [raised |-> FALSE, value |-> 0]
    ELSE The({DecimalOrRaise(clean_value) :
                 clean_value \in {Strip(RemoveChars(value, {"$", ","}))}})

\* The body of the row loop once the cells are read.
RowItem(description, quantity, unit_price, amount) ==
    IF quantity.raised \/ unit_price.raised \/ amount.raised
    THEN [kind |-> "raise"]
    ELSE IF description # <<>>
            /\ (quantity.value > 0 \/ unit_price.value > 0 \/ amount.value > 0)
    THEN [kind |-> "item",
          item |-> [description |-> description, quantity |-> quantity.value,
                    unit_price |-> unit_price.value, amount |-> amount.value]]
    ELSE [kind |-> "skip"]

\* One pass of the row loop: "raise", "skip" or the LineItem.
RowOutcome(table, row) ==
    IF _is_header_row(table, row) THEN [kind |-> "skip"]
    ELSE The({RowItem(description, quantity, unit_price, amount) :
                 description \in {Strip(Str(RowGet(table, row, "description", <<>>)))},
                 quantity \in {_safe_decimal(RowGet(table, row, "quantity", <<"1">>))},
                 unit_price \in {_safe_decimal(RowGet(table, row, "unit_price", <<"0">>))},
                 amount \in {_safe_decimal(RowGet(table, row, "amount", <<"0">>))}})

\* An exception leaves the loop; otherwise the row's item, if any, is appended.
RowThenRest(out, rest) ==
    IF out.kind = "raise" THEN [raised |-> TRUE, items |-> <<>>]
    ELSE IF rest.raised THEN rest
    ELSE IF out.kind = "item"
    THEN [raised |-> FALSE, items |-> <<out.item>> \o rest.items]
    ELSE rest

\* The rows of one table from row i on: [raised, items].
RECURSIVE RowsFrom(_, _)
RowsFrom(table, i) ==
    IF i > Len(table.rows) THEN [raised |-> FALSE, items |-> <<>>]
    ELSE The({RowThenRest(out, rest) :
                 out \in {RowOutcome(table, table.rows[i])},
                 rest \in {RowsFrom(table, i + 1)}})

parse_table_to_line_items(table) == RowsFrom(table, 1)

(***************************************************************************)
(* extract_line_items_from_text_patterns. A text line of kind "item" holds *)
(* its characters in label. Both patterns need a description that starts   *)
(* with a letter and holds no "$", then a quantity and two prices: a label *)
(* line has its "$" right after the colon and a percentage line has no     *)
(* price, so only item lines match, and since every line starts with a     *)
(* letter no match runs over the end of a line.                            *)
(***************************************************************************)
ItemLine(chars) == [kind |-> "item", label |-> chars, amt |-> 0]

\* One element of a pattern: a greedy run of lo .. hi characters of a class.
Step(class, lo, hi) == [class |-> class, lo |-> lo, hi |-> hi]

\* What follows the description, with ("\$?") or without a dollar sign:
\* \s+(\d+)\s+\$?([\d,]+\.\d{2})\s+\$?([\d,]+\.\d{2}). A "+" run is of at most
\* most characters, the length of the string.
NumericTail(dollar, most) ==
    LET sign == Step({"$"}, 0, IF dollar THEN 1 ELSE 0)
        spaces == Step(SpaceSet, 1, most)
        price == <<sign, Step(DigitSet \cup {","}, 1, most),
                   Step({"."}, 1, 1), Step(DigitSet, 2, 2)>>
    IN  <<spaces, Step(DigitSet, 1, most), spaces>> \o price
            \o <<spaces>> \o price

\* The length of the run of characters of a class that s holds from position i.
RunLength(s, i, class) ==
    LET stops == {k \in i .. Len(s) : s[k] \notin class}
    IN  (IF stops = {} THEN Len(s) + 1 ELSE SetMin(stops)) - i

\* The position one step leads to from i, 0 when it fails. Every class of
\* NumericTail is followed by a character outside it, so the greedy run is
\* the only one the match can take.
StepEnd(s, i, step) ==
    The({IF n < step.lo THEN 0 ELSE i + Min(n, step.hi) :
         n \in {RunLength(s, i, step.class)}})

\* The positions the steps from the k-th on start at, and the position the last
\* one ends at; <<>> when one of them fails.
RECURSIVE Walk(_, _, _, _)
WalkOn(i, rest) == IF rest = <<>> THEN <<>> ELSE <<i>> \o rest

Walk(s, i, steps, k) ==
    IF k > Len(steps) THEN <<i>>
    ELSE The({IF j = 0 THEN <<>>
              ELSE The({WalkOn(i, rest) : rest \in {Walk(s, j, steps, k + 1)}}) :
              j \in {StepEnd(s, i, steps[k])}})

\* ([A-Za-z][^$\n]{10,}?) from p to e (exclusive), then the numeric tail.
ItemMatches(s, dollar) ==
    {m \in (DOMAIN s) \X (1 .. (Len(s) + 1)) :
        /\ s[m[1]] \in AlphaSet
        /\ m[2] - m[1] >= 11
        /\ \A k \in (m[1] + 1) .. (m[2] - 1) : s[k] \notin {"$", "\n"}
        /\ m[2] <= Len(s)
        /\ s[m[2]] \in SpaceSet
        /\ Walk(s, m[2], NumericTail(dollar, Len(s)), 1) # <<>>}

\* re.findall takes the leftmost match and, the description being lazy, the
\* shortest description from there.
FirstMatch(matches) ==
    CHOOSE m \in matches :
        \A o \in matches : m[1] < o[1] \/ (m[1] = o[1] /\ m[2] <= o[2])

\* Decimal(s.replace(",", "")) of a captured group: digits, commas and at most
\* one point, which Decimal always accepts.
GroupValue(s, from, to) == DecimalHundredths(RemoveChars(SubSeq(s, from, to - 1), {","}))

\* The LineItem of a match m whose tail starts its steps at the positions w.
TextItem(s, m, w) ==
    [description |-> Strip(SubSeq(s, m[1], m[2] - 1)),
     quantity |-> GroupValue(s, w[2], w[3]),
     unit_price |-> GroupValue(s, w[5], w[8]),
     amount |-> GroupValue(s, w[10], w[13])]

\* The items one pattern finds on one line: the match ends with the line, so
\* there is at most one.
LineMatch(line, dollar) ==
    IF line.kind # "item" THEN <<>>
    ELSE The({IF matches = {} THEN <<>>
              ELSE The({<<TextItem(line.label, m,
                                   Walk(line.label, m[2],
                                        NumericTail(dollar, Len(line.label)), 1))>> :
                        m \in {FirstMatch(matches)}}) :
              matches \in {ItemMatches(line.label, dollar)}})

\* re.findall(pattern, text): the matches line after line.
RECURSIVE PatternItems(_, _, _)
PatternItems(txt, i, dollar) ==
    IF i > Len(txt) THEN <<>>
    ELSE The({here \o rest : here \in {LineMatch(txt[i], dollar)},
                             rest \in {PatternItems(txt, i + 1, dollar)}})

\* The items of the first pattern (prices with or without "$"), then those of
\* the second (prices without "$").
extract_line_items_from_text_patterns(txt) ==
    PatternItems(txt, 1, TRUE) \o PatternItems(txt, 1, FALSE)

\* line_items.extend(items), table after table, unless one raised.
TableThenRest(first, rest) ==
    IF first.raised THEN first
    ELSE IF rest.raised THEN rest
    ELSE [raised |-> FALSE, items |-> first.items \o rest.items]

RECURSIVE TablesFrom(_, _)
TablesFrom(tbls, i) ==
    IF i > Len(tbls) THEN [raised |-> FALSE, items |-> <<>>]
    ELSE The({TableThenRest(first, rest) :
                 first \in {parse_table_to_line_items(tbls[i])},
                 rest \in {TablesFrom(tbls, i + 1)}})

\* A plausible slip: the text patterns tried whatever the tables gave.
TabularAndText(tabular, txt) ==
    IF tabular.raised THEN tabular
    ELSE [raised |-> FALSE,
          items |-> tabular.items \o extract_line_items_from_text_patterns(txt)]

\* The text patterns are tried only when the tables gave no item.
TabularOrText(tabular, txt) ==
    IF tabular.raised THEN tabular
    ELSE IF tabular.items = <<>>
    THEN [raised |-> FALSE, items |-> extract_line_items_from_text_patterns(txt)]
    ELSE tabular

extract_structured_line_items(tbls, txt) ==
    The({TabularOrText(tabular, txt) : tabular \in {TablesFrom(tbls, 1)}})

(***************************************************************************)
(* validate_business_logic: the warnings it prints.                        *)
(***************************************************************************)
RECURSIVE SumAmounts(_)
SumAmounts(items) ==
    IF items = <<>> THEN 0 ELSE items[1].amount + SumAmounts(Tail(items))

validate_business_logic(f, items) ==
    LET calculated_total == f.subtotal - f.discount + f.shipping + f.tax
    IN  {w \in {"reconciliation"} :
            f.final_total > 0 /\ Abs(calculated_total - f.final_total) > 10}
        \cup
        {w \in {"line_items"} :
            f.subtotal > 0 /\ Abs(SumAmounts(items) - f.subtotal) > 10}
        \cup
        {w \in {"discount_exceeds_subtotal"} : f.discount > f.subtotal}
        \cup
        {w \in {"invalid_total"} : f.final_total <= 0 /\ f.subtotal > 0}

(***************************************************************************)
(* PdfPlumberParser.parse.                                                 *)
(***************************************************************************)
InvoiceData(financials, metadata, line_items) ==
    IF line_items.raised
    THEN [status |-> "error", error |-> "ParsingFailedError"]
    ELSE [status |-> "ok",
          vendor |-> Get(metadata, "vendor", S_UnknownVendor),
          invoice_number |-> Get(metadata, "invoice_number", S_NA),
          invoice_date |-> Get(metadata, "date", S_NA),
          total_amount |-> financials.final_total,
          currency |-> S_USD,
          line_items |-> line_items.items,
          subtotal |-> financials.subtotal,
          discount_amount |-> financials.discount,
          discount_percentage |-> financials.discount_percentage,
          shipping_amount |-> financials.shipping,
          tax_amount |-> financials.tax,
          warnings |-> validate_business_logic(financials, line_items.items)]

ParseDocument(txt, tbls) ==
    The({InvoiceData(financials, metadata, line_items) :
            financials \in {extract_financials_with_validation(txt)},
            metadata \in {extract_metadata_with_fallbacks(txt)},
            line_items \in {extract_structured_line_items(tbls, txt)}})

(***************************************************************************)
(* One document read page by page (extract_text, extract_tables), then     *)
(* parsed.                                                                 *)
(***************************************************************************)
C_Widget == <<"W", "i", "d", "g", "e", "t">>

Row(d, q, u, a) == [description |-> d, quantity |-> q, unit_price |-> u, amount |-> a]

RowGood == Row(C_Widget, <<"2">>, <<"$", "1", "0", ".", "0", "0">>,
               <<"$", "2", "0", ".", "0", "0">>)

RowAllZero == Row(C_Widget, <<"0">>, <<"0", ".", "0", "0">>, <<"$", "0", ".", "0", "0">>)

RowUnparsable == Row(C_Widget, <<"t", "w", "o">>, <<"$", "1", "0", ".", "0", "0">>,
                     <<"$", "2", "0", ".", "0", "0">>)

RowNoDescription == Row(NoCell, <<"1">>, <<"5", ".", "0", "0">>, <<"5", ".", "0", "0">>)

SampleRows == {RowGood, RowAllZero, RowUnparsable, RowNoDescription}

RowNegative == Row(C_Widget, <<"1">>, <<"5", ".", "0", "0">>, <<"-", "5", ".", "0", "0">>)

\* The rows of the documents whose line items are looked at.
ItemRows == {RowGood, RowNegative, RowNoDescription}

S_WidgetLine ==
    <<"W", "i", "d", "g", "e", "t", " ", "A", " ", "2", " ", "$", "1", "0",
      ".", "0", "0", " ", "$", "2", "0", ".", "0", "0">>

S_PremiumLine ==
    <<"P", "r", "e", "m", "i", "u", "m", " ", "W", "i", "d", "g", "e", "t",
      " ", "2", " ", "$", "1", "0", ".", "0", "0", " ", "$", "2", "0", ".",
      "0", "0">>

S_PlainLine ==
    <<"P", "r", "e", "m", "i", "u", "m", " ", "G", "a", "d", "g", "e", "t",
      " ", "3", " ", "5", ".", "0", "0", " ", "1", "5", ".", "0", "0">>

S_WidgetA == <<"W", "i", "d", "g", "e", "t", " ", "A">>

S_PremiumWidget ==
    <<"P", "r", "e", "m", "i", "u", "m", " ", "W", "i", "d", "g", "e", "t">>

\* Their text lines: three item lines and a subtotal.
ItemLines ==
    {ItemLine(S_WidgetLine), ItemLine(S_PremiumLine), ItemLine(S_PlainLine),
     AmountLine(L_Subtotal, 2000)}

\* The roles a table's header maps to: all four, or no quantity column.
SampleCols == {Roles, Roles \ {"quantity"}}

RECURSIVE RowCount(_)
RowCount(tbls) == IF tbls = <<>> THEN 0 ELSE Len(tbls[1].rows) + RowCount(Tail(tbls))

PagesRead == Len(text) + RowCount(tables)

RowsRead == UNION {Range(tables[i].rows) : i \in DOMAIN tables}

InitParse ==
    /\ text = <<>>
    /\ tables = <<>>
    /\ ppc = "reading"
    /\ result = None
    /\ OthersIdleParse

\* extract_text appends the text of the next page (each sample line at most once
\* in a document).
ReadLine(line) ==
    /\ ppc = "reading"
    /\ PagesRead < MaxPages
    /\ line \notin Range(text)
    /\ text' = Append(text, line)
    /\ UNCHANGED <<tables, ppc, result, exceptParse>>

\* extract_tables appends a table: a header and at least one row (each sample
\* row at most once in a document).
ReadTable(cols, row) ==
    /\ ppc = "reading"
    /\ PagesRead < MaxPages
    /\ row \notin RowsRead
    /\ tables' = Append(tables, [cols |-> cols, rows |-> <<row>>])
    /\ UNCHANGED <<text, ppc, result, exceptParse>>

\* One more row of the table being read.
ReadRow(row) ==
    /\ ppc = "reading"
    /\ PagesRead < MaxPages
    /\ tables # <<>>
    /\ row \notin RowsRead
    /\ tables' = [tables EXCEPT ![Len(tables)].rows = Append(@, row)]
    /\ UNCHANGED <<text, ppc, result, exceptParse>>

Parse ==
    /\ ppc = "reading"
    /\ result' = ParseDocument(text, tables)
    /\ ppc' = "done"
    /\ UNCHANGED <<text, tables, exceptParse>>

NextParse ==
    \/ \E line \in SampleLines : ReadLine(line)
    \/ \E cols \in SampleCols, row \in SampleRows : ReadTable(cols, row)
    \/ \E row \in SampleRows : ReadRow(row)
    \/ Parse

SpecParse == InitParse /\ [][NextParse]_vars

\* The same parser on documents with item lines in their text.
NextItems ==
    \/ \E line \in ItemLines : ReadLine(line)
    \/ \E cols \in SampleCols, row \in ItemRows : ReadTable(cols, row)
    \/ \E row \in ItemRows : ReadRow(row)
    \/ Parse

SpecItems == InitParse /\ [][NextItems]_vars

(***************************************************************************)
(* Properties of the parse of one document.                                *)
(***************************************************************************)
EmptyDocument == text = <<>> /\ tables = <<>>

\* C2: parsing a document whose extracted text is empty and that has no table
\* raises a typed error and never returns a record.
C2_EmptyTextRaises == (ppc = "done" /\ EmptyDocument) => result.status = "error"

\* The numeric cells of a row under the table's column mapping.
NumericCells(table, row) ==
    {row[role] : role \in table.cols \cap {"quantity", "unit_price", "amount"}}

\* A row the specification drops: a numeric cell that is no decimal, or every
\* numeric cell zero.
Unparsable(table, row) == \E cell \in NumericCells(table, row) : _safe_decimal(cell).raised

AllZero(table, row) ==
    \A cell \in NumericCells(table, row) :
        ~_safe_decimal(cell).raised /\ _safe_decimal(cell).value = 0

ToDrop(table, row) == Unparsable(table, row) \/ AllZero(table, row)

WithoutDropped(tbls) ==
    [i \in DOMAIN tbls |->
        [cols |-> tbls[i].cols,
         rows |-> SelectSeq(tbls[i].rows, LAMBDA row : ~ToDrop(tbls[i], row))]]

HasRowToDrop == \E i \in DOMAIN tables : \E row \in Range(tables[i].rows) : ToDrop(tables[i], row)

\* C8: a table row with an unparsable numeric cell or with all numeric values
\* zero is silently dropped: the parse returns what it returns for the same
\* document without those rows, and raises nothing.
C8_RowSilentlyDropped ==
    (ppc = "done" /\ HasRowToDrop) => result = ParseDocument(text, WithoutDropped(tables))

\* The lines of Scenario A: subtotal, shipping, tax and a balance due that is
\* their sum, and no line with a discount label.
HasLine(label) == \E i \in DOMAIN text : text[i].kind = "amount" /\ text[i].label = label

NoDiscountLabel ==
    \A i \in DOMAIN text :
        /\ ~DiscountLabelMatches(text[i])
        /\ ~DiscountPercentMatches(text[i])
        /\ \A label \in {L_Savings, L_Deduction, L_Less} : ~LabelMatches(text[i], label)

LineAmount(label) == text[CHOOSE i \in DOMAIN text : text[i].label = label].amt

ScenarioA ==
    /\ HasLine(L_Subtotal) /\ HasLine(L_Shipping) /\ HasLine(L_Tax) /\ HasLine(L_BalanceDue)
    /\ NoDiscountLabel
    /\ LineAmount(L_Subtotal) + LineAmount(L_Shipping) + LineAmount(L_Tax)
           = LineAmount(L_BalanceDue)

\* C10: when the labelled lines give subtotal, shipping, tax and a balance due
\* equal to their sum, and no discount label, the record carries those four
\* values unchanged, a discount of 0.00 and no reconciliation warning.
C10_ScenarioA ==
    (ppc = "done" /\ ScenarioA /\ result.status = "ok") =>
        /\ result.subtotal = LineAmount(L_Subtotal)
        /\ result.shipping_amount = LineAmount(L_Shipping)
        /\ result.tax_amount = LineAmount(L_Tax)
        /\ result.total_amount = LineAmount(L_BalanceDue)
        /\ result.discount_amount = 0
        /\ "reconciliation" \notin result.warnings

C10_Witness ==
    /\ ppc = "done"
    /\ ScenarioA
    /\ Len(text) = 4
    /\ text[1].label = L_Subtotal
    /\ tables = <<>>
    /\ result.status = "ok"
    /\ result.total_amount = 11800
    /\ result.discount_amount = 0

FigureFields ==
    {"subtotal", "discount", "discount_percentage", "shipping", "tax", "final_total"}

\* C12: for every text, the figures extraction and reconciliation return hold
\* all six fields, each a number (never null) and each >= 0, whichever of the
\* cross-derivation rules fired.
C12_FiguresPresentNonNegative ==
    (ppc = "done") =>
        \A f \in {extract_financials_with_validation(text)} :
            /\ DOMAIN f = FigureFields
            /\ \A k \in FigureFields : f[k] \in Nat

\* Rule 3 fired: subtotal 100.00 (which "Total:" matches too) and shipping 10.00
\* infer a discount of 10.00.
C12_Witness ==
    /\ ppc = "done"
    /\ text = <<AmountLine(L_Subtotal, 10000), AmountLine(L_Shipping, 1000)>>
    /\ extract_financials_with_validation(text) =
           [subtotal |-> 10000, discount |-> 1000, discount_percentage |-> 1000,
            shipping |-> 1000, tax |-> 0, final_total |-> 10000]

\* |subtotal - discount_amount + shipping + tax - final_total| of the record.
ReconciliationGap ==
    Abs(result.subtotal - result.discount_amount + result.shipping_amount
            + result.tax_amount - result.total_amount)

\* C15: the validator emits a reconciliation-mismatch warning whenever the gap
\* exceeds 0.10, a final_total of 0 included, and none when it does not.
C15_ReconciliationWarning ==
    (ppc = "done" /\ result.status = "ok") =>
        (("reconciliation" \in result.warnings) <=> (ReconciliationGap > 10))

\* The amounts of the lines of the text that carry exactly this label.
Labelled(label) ==
    {text[i].amt : i \in {j \in DOMAIN text :
        text[j].kind = "amount" /\ LowerSeq(text[j].label) = LowerSeq(label)}}

\* C20: final_total is the amount of the highest-priority label of the text,
\* balance due, else total, else amount due, whatever the order of the lines.
C20_LabelPriority ==
    (ppc = "done") =>
        \A f \in {extract_financials_with_validation(text)} :
            IF Labelled(L_BalanceDue) # {} THEN f.final_total \in Labelled(L_BalanceDue)
            ELSE IF Labelled(L_Total) # {} THEN f.final_total \in Labelled(L_Total)
            ELSE IF Labelled(L_AmountDue) # {}
                 THEN f.final_total \in Labelled(L_AmountDue)
            ELSE TRUE

\* Line i of the text carries exactly this label before its amount.
HasLabel(i, label) ==
    text[i].kind = "amount" /\ LowerSeq(text[i].label) = LowerSeq(label)

\* C23: the amount of a "Subtotal:" line is never taken as final_total: with no
\* balance-due label, a "Subtotal:" line followed by a "Total:" line with another
\* amount gives the amount of the "Total:" line.
C23_SubtotalNotFinalTotal ==
    (ppc = "done" /\ Labelled(L_BalanceDue) = {}) =>
        \A i, j \in DOMAIN text :
            (/\ i < j
             /\ HasLabel(i, L_Subtotal)
             /\ HasLabel(j, L_Total)
             /\ text[i].amt # text[j].amt) =>
                extract_financials_with_validation(text).final_total = text[j].amt

(***************************************************************************)
(* Properties of line-item extraction.                                     *)
(***************************************************************************)
\* C11: with no tabular candidates, the text line "Widget A 2 $10.00 $20.00"
\* makes the fallback path yield exactly one LineItem: description "Widget A",
\* quantity 2, unit_price 10.00, amount 20.00.
C11_ScenarioC ==
    (ppc = "done" /\ tables = <<>> /\ text = <<ItemLine(S_WidgetLine)>>) =>
        /\ result.status = "ok"
        /\ result.line_items =
               <<[description |-> S_WidgetA, quantity |-> 200,
                  unit_price |-> 1000, amount |-> 2000]>>

\* A description the document holds: a non-empty description cell of a row, or a
\* piece of an item line.
FromDocument(description) ==
    \/ \E row \in RowsRead :
           row.description # NoCell /\ Strip(row.description) = description
    \/ \E i \in DOMAIN text :
           text[i].kind = "item" /\ Contains(text[i].label, description)

\* C13: every LineItem the extraction returns, from the tables or from the text,
\* has a non-empty description taken from its row and quantity, unit_price and
\* amount >= 0: a row with a negative amount or with an empty (null) description
\* cell is not retained as such.
C13_LineItemsWellFormed ==
    (ppc = "done" /\ result.status = "ok") =>
        \A i \in DOMAIN result.line_items :
            \A item \in {result.line_items[i]} :
                /\ item.description # <<>>
                /\ FromDocument(item.description)
                /\ item.quantity >= 0
                /\ item.unit_price >= 0
                /\ item.amount >= 0

\* A row of some table of the document gave a LineItem.
SomeRowGaveItem ==
    \E t \in DOMAIN tables : \E r \in DOMAIN tables[t].rows :
        RowOutcome(tables[t], tables[t].rows[r]).kind = "item"

\* The descriptions the text patterns find in the text of the document.
TextDescriptions ==
    {item.description : item \in Range(extract_line_items_from_text_patterns(text))}

\* C21: the text patterns are a fallback: whenever at least one table row gave
\* a LineItem, the items returned are those of the tables and none of them is
\* derived from the text patterns.
C21_FallbackOnlyWhenNoTabularItem ==
    (ppc = "done" /\ result.status = "ok" /\ SomeRowGaveItem) =>
        /\ result.line_items = TablesFrom(tables, 1).items
        /\ \A i \in DOMAIN result.line_items :
               result.line_items[i].description \notin TextDescriptions

\* A table with the good row, and a text line both patterns would match.
C21_Witness ==
    /\ ppc = "done"
    /\ result.status = "ok"
    /\ SomeRowGaveItem
    /\ TextDescriptions # {}
    /\ Len(result.line_items) = 1
    /\ result.line_items[1].description = C_Widget

\* The lines of the text with the shape of an item: a description, a quantity
\* and two prices, with or without "$".
MatchingLines ==
    {i \in DOMAIN text :
        text[i].kind = "item" /\ ItemMatches(text[i].label, TRUE) # {}}

\* C22: in the text fallback each line with the shape of an item becomes exactly
\* one LineItem: as many items as matching lines, whether or not the prices
\* carry a "$".
C22_OneItemPerMatchingLine ==
    (ppc = "done" /\ result.status = "ok" /\ ~SomeRowGaveItem) =>
        Len(result.line_items) = Cardinality(MatchingLines)

(***************************************************************************)
(* Regular expressions of the re module, as sets of positions: a position  *)
(* is the index of the next character to read, 1 .. Len(s) + 1.            *)
(***************************************************************************)
\* The positions a run of lo .. hi characters of a class leads to from i.
RunFrom(s, i, class, lo, hi) ==
    {j \in (i + lo) .. Min(i + hi, Len(s) + 1) : \A k \in i .. (j - 1) : s[k] \in class}

Run(s, P, class, lo, hi) == UNION {RunFrom(s, i, class, lo, hi) : i \in P}

\* The positions one of the words, compared without case, leads to.
Literal(s, P, words) ==
    UNION {{i + Len(w) : w \in {x \in words : OccursAt(LowerSeq(s), x, i)}} : i \in P}

\* \b before position i.
WordBoundary(s, i) ==
    ((i > 1) /\ IsWord(s[i - 1])) # ((i <= Len(s)) /\ IsWord(s[i]))

Months ==
    {<<"j", "a", "n">>, <<"f", "e", "b">>, <<"m", "a", "r">>, <<"a", "p", "r">>,
     <<"m", "a", "y">>, <<"j", "u", "n">>, <<"j", "u", "l">>, <<"a", "u", "g">>,
     <<"s", "e", "p">>, <<"o", "c", "t">>, <<"n", "o", "v">>, <<"d", "e", "c">>}

\* (Jan|Feb|...)[a-z]*\s+\d{1,2}\s+\d{4} at position i.
MonthDayYearAt(t, i) ==
    Run(t, Run(t, Run(t, Run(t, Run(t, Literal(t, {i}, Months),
        AlphaSet, 0, Len(t)), SpaceSet, 1, Len(t)), DigitSet, 1, 2),
        SpaceSet, 1, Len(t)), DigitSet, 4, 4) # {}

\* \d{1,2}[/-]\d{1,2}[/-]\d{2,4} at position i.
NumericDateAt(t, i) ==
    Run(t, Run(t, Run(t, Run(t, Run(t, {i},
        DigitSet, 1, 2), {"/", "-"}, 1, 1), DigitSet, 1, 2),
        {"/", "-"}, 1, 1), DigitSet, 2, 4) # {}

\* \d{4}-\d{2}-\d{2} at position i.
IsoDateAt(t, i) ==
    Run(t, Run(t, Run(t, Run(t, Run(t, {i},
        DigitSet, 4, 4), {"-"}, 1, 1), DigitSet, 2, 2),
        {"-"}, 1, 1), DigitSet, 2, 2) # {}

\* \d{1,2}/\d{1,2}/\d{2,4} at position i.
SlashDateAt(t, i) ==
    Run(t, Run(t, Run(t, Run(t, Run(t, {i},
        DigitSet, 1, 2), {"/"}, 1, 1), DigitSet, 1, 2),
        {"/"}, 1, 1), DigitSet, 2, 4) # {}

\* str.isdigit.
IsDigitString(s) == s # <<>> /\ \A i \in DOMAIN s : IsDigit(s[i])

\* re.sub(r"^[#\s]*", "", s).
StripLeadingHash(s) ==
    LET keep == {i \in DOMAIN s : ~(s[i] = "#" \/ IsSpace(s[i]))}
    IN  IF keep = {} THEN <<>> ELSE SubSeq(s, SetMin(keep), Len(s))

(***************************************************************************)
(* InvoiceDataNormalizer. A dict is a record; a numeric value is None or a *)
(* float (in cents); the string fields hold strings.                       *)
(***************************************************************************)
PyNone == [type |-> "NoneType"]

Float(cents) == [type |-> "float", value |-> cents]

canonical_schema ==
    {"file_name", "vendor", "invoice_number", "invoice_date", "subtotal",
     "shipping_amount", "tax_amount", "total_amount", "currency",
     "line_item_description", "line_item_quantity", "line_item_unit_price",
     "line_item_amount", "parsed_timestamp"}

string_fields ==
    {"file_name", "vendor", "invoice_number", "invoice_date", "currency",
     "line_item_description", "parsed_timestamp"}

S_SuperStore == <<"S", "u", "p", "e", "r", "S", "t", "o", "r", "e">>

_looks_like_date(txt) ==
    The({\E i \in 1 .. (Len(t) + 1) :
             WordBoundary(t, i)
             /\ (MonthDayYearAt(t, i) \/ NumericDateAt(t, i) \/ IsoDateAt(t, i)) :
         t \in {Strip(txt)}})

_looks_like_number(txt) ==
    The({t # <<>> /\ IsDigitString(RemoveChars(StripLeadingHash(t), {"."})) :
         t \in {Strip(txt)}})

_looks_like_filename(txt) ==
    The({\E ext \in {<<".", "p", "d", "f">>, <<"i", "n", "v", "o", "i", "c", "e", "_">>, <<"i", "n", "v", "_">>} : Contains(t, ext) : t \in {LowerSeq(txt)}})

\* float(value), None giving 0.0; the numeric values of a record are floats or None.
_safe_float(value) == IF value.type = "NoneType" THEN Float(0) ELSE value

VendorOrDefault(vendor) == IF vendor # <<>> THEN vendor ELSE S_SuperStore

_extract_vendor(data, filename) ==
    The({IF vendor = <<>> \/ _looks_like_filename(vendor)
         THEN S_SuperStore
         ELSE VendorOrDefault(Strip(SelectSeq(vendor,
                  LAMBDA c : IsWord(c) \/ IsSpace(c) \/ c = "&"))) :
         vendor \in {Strip(Get(data, "vendor", <<>>))}})

_extract_invoice_number(data) ==
    The({IF _looks_like_date(invoice_number) /\ ~_looks_like_date(invoice_date)
         THEN invoice_date
         ELSE IF invoice_number # <<>> THEN StripLeadingHash(invoice_number)
         ELSE <<>> :
         invoice_number \in {Strip(Get(data, "invoice_number", <<>>))},
         invoice_date \in {Strip(Get(data, "invoice_date", <<>>))}})

_extract_invoice_date(data) ==
    The({IF _looks_like_number(invoice_date) /\ ~_looks_like_number(invoice_number)
         THEN invoice_number
         ELSE IF invoice_date # <<>>
         THEN SelectSeq(invoice_date, LAMBDA c : IsWord(c) \/ IsSpace(c) \/ c = ",")
         ELSE <<>> :
         invoice_date \in {Strip(Get(data, "invoice_date", <<>>))},
         invoice_number \in {Strip(Get(data, "invoice_number", <<>>))}})

\* Every path returns "USD".
_extract_currency(data) == S_USD

\* The candidates that are strings: shipping_amount is a float or None and is
\* passed over; line_item_description and vendor when the dict has them.
_extract_description_from_other_fields(data) ==
    LET potential_descriptions ==
            (IF "line_item_description" \in DOMAIN data
             THEN <<data.line_item_description>> ELSE <<>>)
            \o (IF "vendor" \in DOMAIN data THEN <<data.vendor>> ELSE <<>>)
        usable == SelectSeq(potential_descriptions,
                      LAMBDA desc : /\ desc # <<>>
                                    /\ ~_looks_like_number(desc)
                                    /\ Len(Strip(desc)) > 3
                                    /\ ~IsDigitString(Strip(desc)))
    IN  IF usable # <<>> THEN Strip(usable[1]) ELSE <<>>

FirstItemFields(data, first_item, description) ==
    [line_item_description |->
         IF description # <<>> THEN description
         ELSE _extract_description_from_other_fields(data),
     line_item_quantity |-> _safe_float(Get(first_item, "quantity", Float(0))),
     line_item_unit_price |-> _safe_float(Get(first_item, "unit_price", Float(0))),
     line_item_amount |-> _safe_float(Get(first_item, "amount", Float(0)))]

_extract_line_items(data) ==
    The({IF line_items # <<>>
         THEN FirstItemFields(data, line_items[1],
                              Strip(Get(line_items[1], "description", <<>>)))
         ELSE [line_item_description |-> <<>>, line_item_quantity |-> Float(0),
               line_item_unit_price |-> Float(0), line_item_amount |-> Float(0)] :
         line_items \in {Get(data, "line_items", <<>>)}})

\* datetime.isoformat: one string per instant.
isoformat(instant) == <<"T", Digits[instant + 1]>>

_get_default_value(field, instant) ==
    IF field \in {"vendor"} THEN S_SuperStore
    ELSE IF field = "currency" THEN S_USD
    ELSE IF field = "parsed_timestamp" THEN isoformat(instant)
    ELSE IF field \in string_fields THEN <<>>
    ELSE Float(0)

\* Missing canonical fields get their default; string fields are stripped.
_validate_and_clean(data, instant) ==
    [field \in DOMAIN data \cup canonical_schema |->
        IF field \notin DOMAIN data THEN _get_default_value(field, instant)
        ELSE IF field \in string_fields THEN Strip(data[field])
        ELSE data[field]]

normalize(data, filename, instant) ==
    The({_validate_and_clean(
             [file_name |-> filename,
              parsed_timestamp |->
                  IF Get(data, "parsed_timestamp", <<>>) # <<>>
                  THEN data.parsed_timestamp ELSE isoformat(instant),
              vendor |-> _extract_vendor(data, filename),
              invoice_number |-> _extract_invoice_number(data),
              invoice_date |-> _extract_invoice_date(data),
              subtotal |-> _safe_float(Get(data, "subtotal", Float(0))),
              shipping_amount |-> _safe_float(Get(data, "shipping_amount", Float(0))),
              tax_amount |-> _safe_float(Get(data, "tax_amount", Float(0))),
              total_amount |-> _safe_float(Get(data, "total_amount", Float(0))),
              currency |-> _extract_currency(data),
              line_item_description |-> line_items_data.line_item_description,
              line_item_quantity |-> line_items_data.line_item_quantity,
              line_item_unit_price |-> line_items_data.line_item_unit_price,
              line_item_amount |-> line_items_data.line_item_amount],
             instant) :
         line_items_data \in {_extract_line_items(data)}})

(***************************************************************************)
(* normalize applied to an extractor output (InvoiceData.to_dict, raw_text *)
(* left out: normalize never reads it), then to its own result.            *)
(***************************************************************************)
S_4471 == <<"4", "4", "7", "1">>

S_HashInv7 == <<"#", "I", "N", "V", "-", "7">>

S_March3 == <<"M", "a", "r", "c", "h", " ", "3", " ", "2", "0", "2", "0">>

S_SlashDate == <<"3", "/", "4", "/", "2", "0", "2", "0">>

S_IsoDate == <<"2", "0", "2", "0", "-", "0", "3", "-", "0", "4">>

S_abc == <<"a", "b", "c">>

S_FileName == <<"a", ".", "p", "d", "f">>

S_Supplied == <<"T", "0">>

NormVendors == {<<"A", "c", "m", "e", " ", "&", " ", "C", "o", ".">>, <<"i", "n", "v", "_", "7", ".", "p", "d", "f">>}

NormNumbers == {S_4471, S_HashInv7, S_March3, S_SlashDate, <<>>}

S_Hash4471 == <<"#", "4", "4", "7", "1">>

NormDates == {S_March3, S_SlashDate, S_IsoDate, S_4471, S_Hash4471, S_abc, <<>>}

ItemDict(description) ==
    [description |-> description, quantity |-> Float(200),
     unit_price |-> Float(1000), amount |-> Float(2000)]

NormLineItems == {<<>>, <<ItemDict(C_Widget)>>, <<ItemDict(<<>>)>>}

ToDicts ==
    [vendor : NormVendors, invoice_number : NormNumbers, invoice_date : NormDates,
     total_amount : {Float(11800)}, currency : {S_USD}, line_items : NormLineItems,
     subtotal : {PyNone, Float(10000)}, discount_amount : {PyNone},
     discount_percentage : {PyNone}, shipping_amount : {PyNone},
     tax_amount : {Float(800)}]

\* The same with a parsed_timestamp supplied by the caller.
WithTimestamp(d) ==
    [k \in DOMAIN d \cup {"parsed_timestamp"} |->
        IF k = "parsed_timestamp" THEN S_Supplied ELSE d[k]]

NormInputs == ToDicts \cup {WithTimestamp(d) : d \in ToDicts}

InitNorm ==
    /\ raw_parsed_data \in NormInputs
    /\ normalized = None
    /\ renormalized = None
    /\ npc = "raw"
    /\ now = 1
    /\ OthersIdleNorm

Normalize ==
    /\ npc = "raw"
    /\ normalized' = normalize(raw_parsed_data, S_FileName, now)
    /\ now' = now + 1
    /\ npc' = "once"
    /\ UNCHANGED <<raw_parsed_data, renormalized, exceptNorm>>

\* normalize on the record normalize returned.
NormalizeAgain ==
    /\ npc = "once"
    /\ renormalized' = normalize(normalized, S_FileName, now)
    /\ now' = now + 1
    /\ npc' = "twice"
    /\ UNCHANGED <<raw_parsed_data, normalized, exceptNorm>>

NextNorm == Normalize \/ NormalizeAgain

SpecNorm == InitNorm /\ [][NextNorm]_vars

\* C3: normalisation is idempotent: with a fixed filename and a supplied
\* parsed_timestamp, normalize(normalize(x)) = normalize(x) for every extractor
\* output x.
C3_Idempotent ==
    (npc = "twice" /\ "parsed_timestamp" \in DOMAIN raw_parsed_data)
        => renormalized = normalized

OriginalNumber == Strip(raw_parsed_data.invoice_number)

OriginalDate == Strip(raw_parsed_data.invoice_date)

Swapped ==
    normalized.invoice_number = OriginalDate /\ normalized.invoice_date = OriginalNumber

\* C5: the field-swap correction is a true swap: when invoice_number is
\* date-shaped and invoice_date is not, or invoice_date is number-shaped and
\* invoice_number is not, the normalised invoice_number is the original
\* invoice_date and the normalised invoice_date the original invoice_number.
C5_TrueSwap ==
    (npc \in {"once", "twice"}) =>
        /\ (_looks_like_date(OriginalNumber) /\ ~_looks_like_date(OriginalDate)) => Swapped
        /\ (_looks_like_number(OriginalDate) /\ ~_looks_like_number(OriginalNumber)) => Swapped

CanonicalFieldSet ==
    {"file_name", "vendor", "invoice_number", "invoice_date", "subtotal",
     "shipping_amount", "tax_amount", "total_amount", "currency", "discount_amount",
     "discount_percentage", "line_items", "parsed_timestamp"}

\* C6: every record normalize returns has every key of the canonical field set,
\* its numeric fields floats and never None, its string fields trimmed strings.
C6_CanonicalKeys ==
    (npc \in {"once", "twice"}) =>
        /\ CanonicalFieldSet \subseteq DOMAIN normalized
        /\ \A f \in DOMAIN normalized :
               IF f \in string_fields THEN Strip(normalized[f]) = normalized[f]
               ELSE normalized[f].type = "float"

\* C18: the invoice_number of the normalised record never begins with "#",
\* also when the value was obtained through the field-swap correction.
C18_NoLeadingHash ==
    (npc \in {"once", "twice"}) =>
        (normalized.invoice_number = <<>> \/ normalized.invoice_number[1] # "#")

(***************************************************************************)
(* parser_confidence. A confidence is a fraction n/d in lowest terms.      *)
(***************************************************************************)
RECURSIVE GCD(_, _)
GCD(a, b) == IF b = 0 THEN a ELSE The({GCD(b, r) : r \in {a % b}})

Reduced(n, d, g) == [n |-> n \div g, d |-> d \div g]

Frac(n, d) == The({Reduced(n, d, g) : g \in {GCD(n, d)}})

Add(x, y) == Frac(x.n * y.d + y.n * x.d, x.d * y.d)

InUnitInterval(x) == x.d > 0 /\ 0 <= x.n /\ x.n <= x.d

\* None where a string is expected.
NoString == NoCell

\* "not value" for a string or None.
Falsy(value) == value = NoString \/ value = <<>>

numeric_confidence(value) ==
    IF value = NoString THEN Frac(0, 100)
    ELSE IF DecimalSyntax(value) THEN Frac(95, 100)
    ELSE Frac(0, 100)

date_confidence(value) ==
    IF Falsy(value) THEN Frac(0, 100)
    ELSE IF IsoDateAt(value, 1) THEN Frac(95, 100)
    ELSE IF SlashDateAt(value, 1) THEN Frac(85, 100)
    ELSE Frac(40, 100)

DateShaped(txt) == _looks_like_date(txt)

NoSwapApplies ==
    /\ ~(_looks_like_date(OriginalNumber) /\ ~_looks_like_date(OriginalDate))
    /\ ~(_looks_like_number(OriginalDate) /\ ~_looks_like_number(OriginalNumber))

\* C30: normalisation keeps a date a date: when the invoice_date given to
\* normalize is date-shaped and no swap applies, the normalised invoice_date
\* is date-shaped too and its date confidence is not below that of the input.
C30_DateStaysDate ==
    (npc \in {"once", "twice"} /\ DateShaped(OriginalDate) /\ NoSwapApplies) =>
        /\ DateShaped(normalized.invoice_date)
        /\ date_confidence(normalized.invoice_date).n * date_confidence(OriginalDate).d
               >= date_confidence(OriginalDate).n * date_confidence(normalized.invoice_date).d

\* SequenceMatcher.find_longest_match on a[alo..ahi] and b[blo..bhi] (no junk):
\* the blocks <<i, j, k>> with a[i..i+k-1] = b[j..j+k-1], and among them the
\* longest, earliest in a, then earliest in b.
Blocks(a, b, alo, ahi, blo, bhi) ==
    {m \in (alo .. ahi) \X (blo .. bhi) \X (1 .. Min(ahi - alo + 1, bhi - blo + 1)) :
        /\ m[1] + m[3] - 1 <= ahi
        /\ m[2] + m[3] - 1 <= bhi
        /\ SubSeq(a, m[1], m[1] + m[3] - 1) = SubSeq(b, m[2], m[2] + m[3] - 1)}

Better(m, o) ==
    \/ m[3] > o[3]
    \/ m[3] = o[3] /\ m[1] < o[1]
    \/ m[3] = o[3] /\ m[1] = o[1] /\ m[2] <= o[2]

LongestOf(blocks) == CHOOSE m \in blocks : \A o \in blocks : Better(m, o)

\* get_matching_blocks: the longest match, then the same to its left and right;
\* the total size of the blocks.
RECURSIVE MatchingSize(_, _, _, _, _, _)
AroundBlock(a, b, alo, ahi, blo, bhi, m) ==
    m[3] + MatchingSize(a, b, alo, m[1] - 1, blo, m[2] - 1)
         + MatchingSize(a, b, m[1] + m[3], ahi, m[2] + m[3], bhi)

MatchingSize(a, b, alo, ahi, blo, bhi) ==
    IF alo > ahi \/ blo > bhi THEN 0
    ELSE The({IF blocks = {} THEN 0
              ELSE The({AroundBlock(a, b, alo, ahi, blo, bhi, m) :
                        m \in {LongestOf(blocks)}}) :
              blocks \in {Blocks(a, b, alo, ahi, blo, bhi)}})

\* A plausible slip: the matches over the length of the first string only.
RatioOverFirst(a, b) == Frac(2 * MatchingSize(a, b, 1, Len(a), 1, Len(b)), Len(a))

\* SequenceMatcher(None, a, b).ratio(): 2.0 * matches / (len(a) + len(b)).
ratio(a, b) ==
    IF Len(a) + Len(b) = 0 THEN Frac(1, 1)
    ELSE Frac(2 * MatchingSize(a, b, 1, Len(a), 1, Len(b)), Len(a) + Len(b))

string_similarity_confidence(a, b) ==
    IF Falsy(a) \/ Falsy(b) THEN Frac(0, 100)
    ELSE The({ratio(la, lb) : la \in {LowerSeq(a)}, lb \in {LowerSeq(b)}})

\* "x or ''".
OrEmpty(value) == IF Falsy(value) THEN <<>> ELSE value

\* A context argument: not given (None), or a dict.
NoContext == [given |-> FALSE]

Context(dict) == [given |-> TRUE, dict |-> dict]

\* A plausible slip: without a context the vendor is compared with nothing.
VendorReferenceNoSelf(vendor, ctx) ==
    IF ctx.given /\ DOMAIN ctx.dict # {}
    THEN Get(ctx.dict, "vendor", NoString)
    ELSE <<>>

\* "context.get('vendor') if context else vendor or ''".
VendorReference(vendor, ctx) ==
    IF ctx.given /\ DOMAIN ctx.dict # {}
    THEN Get(ctx.dict, "vendor", NoString)
    ELSE OrEmpty(vendor)

InvoiceNumberConfidence(inv) ==
    IF ~Falsy(inv) /\ Len(inv) >= 3 THEN Frac(90, 100)
    ELSE IF ~Falsy(inv) THEN Frac(50, 100)
    ELSE Frac(0, 100)

compute_field_confidences(record, ctx) ==
    [subtotal |-> numeric_confidence(Get(record, "subtotal", NoString)),
     tax_amount |-> numeric_confidence(Get(record, "tax_amount", NoString)),
     discount_amount |-> numeric_confidence(Get(record, "discount_amount", NoString)),
     shipping_amount |-> numeric_confidence(Get(record, "shipping_amount", NoString)),
     total_amount |-> numeric_confidence(Get(record, "total_amount", NoString)),
     invoice_date |-> date_confidence(Get(record, "invoice_date", NoString)),
     due_date |-> date_confidence(Get(record, "due_date", NoString)),
     vendor |-> The({string_similarity_confidence(OrEmpty(vendor),
                                                  VendorReference(vendor, ctx)) :
                     vendor \in {Get(record, "vendor", NoString)}}),
     invoice_number |-> The({InvoiceNumberConfidence(inv) :
                             inv \in {Get(record, "invoice_number", NoString)}}),
     currency |-> IF Falsy(Get(record, "currency", NoString))
                  THEN Frac(0, 100) ELSE Frac(95, 100),
     line_items |-> IF Len(Get(record, "line_items", <<>>)) > 0
                    THEN Frac(90, 100) ELSE Frac(0, 100)]

\* sum(values) for the values at positions i.. of a list of fractions.
RECURSIVE SumFrom(_, _)
SumFrom(values, i) ==
    IF i > Len(values) THEN Frac(0, 1)
    ELSE The({Add(x, rest) : x \in {values[i]}, rest \in {SumFrom(values, i + 1)}})

MeanOfSum(total, count) == Frac(total.n, total.d * count)

\* sum(values) / len(values), 0.0 for none.
Mean(values) ==
    IF values = <<>> THEN Frac(0, 1)
    ELSE The({MeanOfSum(total, Len(values)) : total \in {SumFrom(values, 1)}})

\* The keys of a dict, in a fixed order.
RECURSIVE KeyList(_)
KeyList(keys) ==
    IF keys = {} THEN <<>>
    ELSE The({<<k>> \o KeyList(keys \ {k}) : k \in {CHOOSE x \in keys : TRUE}})

ValueList(dict) == The({[i \in DOMAIN ks |-> dict[ks[i]]] : ks \in {KeyList(DOMAIN dict)}})

overall_confidence(conf) == Mean(ValueList(conf))

(***************************************************************************)
(* compute_field_confidences and overall_confidence on a parsed record,    *)
(* with or without a context.                                              *)
(***************************************************************************)
S_Acme == <<"A", "c", "m", "e">>

S_AcmeCo == <<"A", "C", "M", "E", " ", "C", "o">>

S_Amount == <<"1", "1", "8", ".", "0", "0">>

\* A dict without some of its keys (get then gives None).
Without(dict, keys) == [k \in DOMAIN dict \ keys |-> dict[k]]

ParsedDicts ==
    [vendor : {<<>>, S_Acme, S_AcmeCo},
     invoice_number : {<<>>, <<"7">>, S_4471},
     invoice_date : {<<>>, S_IsoDate, S_SlashDate, S_March3},
     due_date : {<<>>},
     subtotal : {S_Amount, S_abc},
     tax_amount : {<<"0">>},
     discount_amount : {<<"0">>},
     shipping_amount : {<<"0">>},
     total_amount : {S_Amount},
     currency : {S_USD, <<>>},
     line_items : {<<>>, <<ItemDict(C_Widget)>>}]

ParsedInputs ==
    ParsedDicts \cup {Without(d, {"subtotal", "due_date", "vendor"}) : d \in ParsedDicts}

ContextInputs ==
    {NoContext, Context(<< >>), Context([vendor |-> S_Acme]),
     Context([vendor |-> <<"M", "a", "c", "e">>]), Context([customer |-> S_Acme])}

InitScore ==
    /\ parsed \in ParsedInputs
    /\ context \in ContextInputs
    /\ conf_map = None
    /\ overall = None
    /\ cpc = "parsed"
    /\ OthersIdleScore

Score ==
    /\ cpc = "parsed"
    /\ \E conf \in {compute_field_confidences(parsed, context)} :
           /\ conf_map' = conf
           /\ overall' = overall_confidence(conf)
    /\ cpc' = "scored"
    /\ UNCHANGED <<parsed, context, exceptScore>>

NextScore == Score

SpecScore == InitScore /\ [][NextScore]_vars

\* C4: for every parsed record, with or without a context, every value of the
\* map compute_field_confidences returns lies in [0.0, 1.0], and so does
\* overall_confidence of that map.
C4_ConfidencesInUnitInterval ==
    (cpc = "scored") =>
        /\ \A f \in DOMAIN conf_map : InUnitInterval(conf_map[f])
        /\ InUnitInterval(overall)

C4_Witness ==
    /\ cpc = "scored"
    /\ context = Context([vendor |-> S_Acme])
    /\ "vendor" \in DOMAIN parsed
    /\ parsed.vendor = S_AcmeCo
    /\ conf_map.vendor = [n |-> 8, d |-> 11]
    /\ conf_map.line_items = [n |-> 9, d |-> 10]
    /\ overall.n > 0

HasVendor == "vendor" \in DOMAIN parsed /\ parsed.vendor # <<>>

S_Unknown == <<"U", "n", "k", "n", "o", "w", "n">>

\* str(n) of a natural number.
RECURSIVE NatStr(_)
NatStr(n) ==
    IF n < 10 THEN <<Digits[n + 1]>>
    ELSE NatStr(n \div 10) \o <<Digits[(n % 10) + 1]>>

\* str of a Decimal of two decimals, held in hundredths.
DecimalStr(v) ==
    (IF v < 0 THEN <<"-">> ELSE <<>>)
        \o NatStr(Abs(v) \div 100)
        \o <<".", Digits[((Abs(v) % 100) \div 10) + 1], Digits[(Abs(v) % 10) + 1]>>

\* str of a quantity: whole as written in the documents, or with its decimals.
QuantityStr(v) ==
    IF v % 100 = 0
    THEN (IF v < 0 THEN <<"-">> ELSE <<>>) \o NatStr(Abs(v) \div 100)
    ELSE DecimalStr(v)

\* "str(x) if x else '0'".
StrOrZero(v) == IF v # 0 THEN DecimalStr(v) ELSE <<"0">>

\* "x or default" for a string.
OrDefault(value, default) == IF value # <<>> THEN value ELSE default

parse_invoice_bytes(invoice_data) ==
    [vendor |-> OrDefault(invoice_data.vendor, S_Unknown),
     invoice_number |-> OrDefault(invoice_data.invoice_number, S_NA),
     invoice_date |-> OrDefault(invoice_data.invoice_date, <<>>),
     due_date |-> <<>>,
     subtotal |-> StrOrZero(invoice_data.subtotal),
     tax_amount |-> StrOrZero(invoice_data.tax_amount),
     discount_amount |-> StrOrZero(invoice_data.discount_amount),
     shipping_amount |-> StrOrZero(invoice_data.shipping_amount),
     total_amount |-> StrOrZero(invoice_data.total_amount),
     currency |-> OrDefault(invoice_data.currency, S_USD),
     line_items |->
         [i \in DOMAIN invoice_data.line_items |->
             [description |-> invoice_data.line_items[i].description,
              quantity |-> QuantityStr(invoice_data.line_items[i].quantity),
              unit_price |-> DecimalStr(invoice_data.line_items[i].unit_price),
              amount |-> DecimalStr(invoice_data.line_items[i].amount)]]]

\* C17: when no invoice-number pattern matches the text the record's
\* invoice_number is the empty string, and when no date pattern matches its
\* invoice_date is the empty string; the scorer then sees an empty value and
\* gives the field the confidence 0.0.
C17_NoMatchGivesEmpty ==
    (ppc = "done" /\ result.status = "ok") =>
        \A metadata \in {extract_metadata_with_fallbacks(text)} :
            \A conf \in {compute_field_confidences(parse_invoice_bytes(result), NoContext)} :
                /\ ("invoice_number" \notin DOMAIN metadata) =>
                       (result.invoice_number = <<>> /\ conf.invoice_number = Frac(0, 1))
                /\ ("date" \notin DOMAIN metadata) =>
                       (result.invoice_date = <<>> /\ conf.invoice_date = Frac(0, 1))

(***************************************************************************)
(* The v2 API: parse_invoice_endpoint stores a parsed invoice under a      *)
(* fresh id, update_invoice_field merges a manual override into it, and    *)
(* the key expires after its TTL.                                          *)
(***************************************************************************)
InvoiceIds == {"id1", "id2"}

S_OtherFile == <<"b", ".", "t", "x", "t">>

S_Manual == <<"m", "a", "n", "u", "a", "l">>

S_Ocr == <<"o", "c", "r">>

\* parse_invoice_bytes: every field a string, the empty ones replaced.
EndpointParsed ==
    [vendor : {S_Acme},
     invoice_number : {S_4471},
     invoice_date : {<<>>, S_IsoDate},
     due_date : {<<>>},
     subtotal : {S_Amount},
     tax_amount : {<<"0">>},
     discount_amount : {<<"0">>},
     shipping_amount : {<<"0">>},
     total_amount : {S_Amount},
     currency : {S_USD},
     line_items : {<<>>, <<ItemDict(C_Widget)>>}]

\* The field names and payloads of the overrides tried.
EditFields == {"subtotal", "invoice_date", "line_items", "notes"}

Payloads == {[value |-> <<"X">>], [value |-> <<"X">>, source |-> S_Manual]}

\* A value of the "parsed" dict: a ParsedField dict, or the raw line_items list.
FieldDict(value, confidence, source) ==
    [kind |-> "dict", value |-> value, confidence |-> confidence, source |-> source]

RawList(value) == [kind |-> "list", value |-> value]

\* dict[key] = value.
Put(dict, key, value) ==
    [k \in DOMAIN dict \cup {key} |-> IF k = key THEN value ELSE dict[k]]

StoreRecord(id, record, filename, conf) ==
    [id |-> id,
     parsed |-> [k \in DOMAIN record |->
                    IF k = "line_items" THEN RawList(record[k])
                    ELSE FieldDict(record[k], Get(conf, k, Frac(0, 1)), S_Ocr)],
     overall_confidence |-> overall_confidence(conf),
     file_name |-> filename,
     raw_parsed |-> record]

\* One server process: no request is handled beside another.
InitStore ==
    /\ redis = << >>
    /\ workers = << >>
    /\ OthersIdleStore

\* POST /api/v2/invoices/parse.
parse_invoice_endpoint(id, filename, record) ==
    /\ EndsWith(LowerSeq(filename), <<".", "p", "d", "f">>)
    /\ id \notin DOMAIN redis
    /\ \E conf \in {compute_field_confidences(record, NoContext)} :
           redis' = Put(redis, id, StoreRecord(id, record, filename, conf))
    /\ UNCHANGED <<workers, exceptStore>>

\* The confidences the recomputation averages.
ConfScores(parsed_fields) ==
    The({[i \in DOMAIN ks |-> parsed_fields[ks[i]].confidence] :
         ks \in {KeyList({k \in DOMAIN parsed_fields :
                             k # "line_items" /\ parsed_fields[k].kind = "dict"})}})

Recomputed(stored, parsed_fields, conf_scores) ==
    [stored EXCEPT !.parsed = parsed_fields,
                   !.overall_confidence =
                       IF conf_scores # <<>> THEN Mean(conf_scores) ELSE @]

Merged(stored, parsed_fields) ==
    The({Recomputed(stored, parsed_fields, conf_scores) :
         conf_scores \in {ConfScores(parsed_fields)}})

\* PATCH /api/v2/invoices/{invoice_id}/fields/{field_name}.
update_invoice_field(id, field_name, payload) ==
    /\ id \in DOMAIN redis
    /\ \E parsed_fields \in
              {Put(redis[id].parsed, field_name,
                   FieldDict(payload.value, Frac(1, 1), Get(payload, "source", S_Manual)))} :
           redis' = [redis EXCEPT ![id] = Merged(redis[id], parsed_fields)]
    /\ UNCHANGED <<workers, exceptStore>>

\* The TTL of a key runs out.
Expire(id) ==
    /\ id \in DOMAIN redis
    /\ redis' = [k \in DOMAIN redis \ {id} |-> redis[k]]
    /\ UNCHANGED <<workers, exceptStore>>

NextStore ==
    \/ \E id \in InvoiceIds, filename \in {S_FileName, S_OtherFile},
          record \in EndpointParsed : parse_invoice_endpoint(id, filename, record)
    \/ \E id \in InvoiceIds, field_name \in EditFields, payload \in Payloads :
          update_invoice_field(id, field_name, payload)
    \/ \E id \in InvoiceIds : Expire(id)

SpecStore == InitStore /\ [][NextStore]_vars

\* The current confidence of a field of the parse-time field set: the stored one,
\* or for line_items never overridden the score computed at parse time.
CurrentConfidence(stored, field) ==
    IF stored.parsed[field].kind = "dict" THEN stored.parsed[field].confidence
    ELSE compute_field_confidences(stored.raw_parsed, NoContext)[field]

MeanOfAllFields(stored) ==
    The({Mean([i \in DOMAIN ks |-> CurrentConfidence(stored, ks[i])]) :
         ks \in {KeyList(DOMAIN stored.raw_parsed)}})

\* C9: after parsing and after any sequence of manual overrides, the stored
\* overall_confidence is the unweighted mean of the current confidences of all
\* fields of the parse-time field set, line_items included, an overridden field
\* counting 1.0.
C9_OverallIsMeanOfAllFields ==
    \A id \in DOMAIN redis : redis[id].overall_confidence = MeanOfAllFields(redis[id])

\* x >= y for two confidences.
NotLower(x, y) == x.n * y.d >= y.n * x.d

\* C25: a manual override never lowers the stored overall confidence: for every
\* stored invoice and every field, overall_confidence after the override is >=
\* overall_confidence before it.
C25_OverrideNeverLowersOverall ==
    [][\A id \in DOMAIN redis \cap DOMAIN redis' :
           NotLower(redis'[id].overall_confidence, redis[id].overall_confidence)]_vars

(***************************************************************************)
(* update_invoice_field in several server processes on one Redis: get_json *)
(* and setex_json are two commands, with no transaction or lock between    *)
(* them, so the handlers of two processes interleave at that point. Each   *)
(* worker handles one PATCH of an invoice stored before.                   *)
(***************************************************************************)
Workers == {"w1", "w2"}

\* The lines between get_json and setex_json, on the copy the worker read.
Override(stored, field_name, payload) ==
    Merged(stored,
           Put(stored.parsed, field_name,
               FieldDict(payload.value, Frac(1, 1), Get(payload, "source", S_Manual))))

InitWorkers ==
    /\ \E record \in EndpointParsed :
           \E conf \in {compute_field_confidences(record, NoContext)} :
               redis = Put(<< >>, "id1", StoreRecord("id1", record, S_FileName, conf))
    /\ workers = [w \in Workers |-> [pc |-> "idle"]]
    /\ OthersIdleStore

\* get_json: the worker reads the stored record, or raises the 404.
GetJson(w, id, field_name, payload) ==
    /\ workers[w].pc = "idle"
    /\ workers' = [workers EXCEPT ![w] =
           IF id \in DOMAIN redis
           THEN [pc |-> "merging", invoice_id |-> id, field_name |-> field_name,
                 payload |-> payload, stored |-> redis[id]]
           ELSE [pc |-> "raised", status_code |-> 404]]
    /\ UNCHANGED <<redis, exceptStore>>

\* The merge on the copy, setex_json of the whole record, and the response.
SetexJson(w) ==
    /\ workers[w].pc = "merging"
    /\ redis' = Put(redis, workers[w].invoice_id,
                    Override(workers[w].stored, workers[w].field_name, workers[w].payload))
    /\ workers' = [workers EXCEPT ![w] =
           [pc |-> "returned", invoice_id |-> @.invoice_id,
            field_name |-> @.field_name, payload |-> @.payload]]
    /\ UNCHANGED exceptStore

NextWorkers ==
    \/ \E w \in Workers, id \in InvoiceIds, field_name \in EditFields, payload \in Payloads :
          GetJson(w, id, field_name, payload)
    \/ \E w \in Workers : SetexJson(w)
    \/ \E id \in InvoiceIds : Expire(id)

SpecWorkers == InitWorkers /\ [][NextWorkers]_vars

\* The stored record holds the override a worker answered for.
HoldsOverride(stored, w) ==
    /\ workers[w].field_name \in DOMAIN stored.parsed
    /\ stored.parsed[workers[w].field_name] =
           FieldDict(workers[w].payload.value, Frac(1, 1),
                     Get(workers[w].payload, "source", S_Manual))

\* C24: two manual overrides of different fields of the same stored invoice,
\* handled concurrently by separate workers, are both in the stored record once
\* both have answered: no interleaving loses an edit.
C24_NoLostOverride ==
    \A v, w \in Workers :
        (/\ v # w
         /\ workers[v].pc = "returned"
         /\ workers[w].pc = "returned"
         /\ workers[v].invoice_id = workers[w].invoice_id
         /\ workers[v].field_name # workers[w].field_name
         /\ workers[v].invoice_id \in DOMAIN redis) =>
            /\ HoldsOverride(redis[workers[v].invoice_id], v)
            /\ HoldsOverride(redis[workers[v].invoice_id], w)

(***************************************************************************)
(* parse_bulk_invoices: one pass of the loop per file, then the response.  *)
(* What a file does to the collaborators is drawn with the file: it is     *)
(* read and parsed ("ok"), validate_file raises ("invalid"), the use case  *)
(* returns success False after a parser or repository exception            *)
(* ("parse_error"), normalize raises ("normalize_error") or the exporter   *)
(* raises ("export_error").                                                *)
(***************************************************************************)
Fates == {"ok", "invalid", "parse_error", "normalize_error", "export_error"}

PdfNames == {S_FileName, <<"b", ".", "P", "D", "F">>}

UploadFiles ==
    [filename : PdfNames, fate : Fates] \cup [filename : {<<"c", ".", "t", "x", "t">>}, fate : {"ok"}]

Batches == UNION {[1 .. n -> UploadFiles] : n \in 0 .. MaxFiles}

Failure(file, error) == [filename |-> file.filename, success |-> FALSE, error |-> error]

Success(file) == [filename |-> file.filename, success |-> TRUE]

\* The body of the try: the entries it appends, what it adds to
\* successful_parses, and whether it ends with an exception.
TryBody(file) ==
    IF ~EndsWith(LowerSeq(file.filename), <<".", "p", "d", "f">>)
    THEN [appended |-> <<Failure(file, "Only PDF files are supported")>>,
          counted |-> 0, raised |-> FALSE]
    ELSE IF file.fate = "invalid"
    THEN [appended |-> <<>>, counted |-> 0, raised |-> TRUE]
    ELSE IF file.fate = "parse_error"
    THEN [appended |-> <<Failure(file, "parsed_result.error")>>,
          counted |-> 0, raised |-> FALSE]
    ELSE IF file.fate \in {"normalize_error", "export_error"}
    THEN [appended |-> <<>>, counted |-> 0, raised |-> TRUE]
    ELSE [appended |-> <<Success(file)>>, counted |-> 1, raised |-> FALSE]

\* A plausible slip: the handler logs the exception and appends nothing.
ExceptLogsOnly(file, raised) == <<>>

\* except Exception: the entry the handler appends.
ExceptEntries(file, raised) == IF raised THEN <<Failure(file, "str(e)")>> ELSE <<>>

InitBulk ==
    /\ files \in Batches
    /\ file_index = 1
    /\ results = <<>>
    /\ successful_parses = 0
    /\ response = None
    /\ bpc = "loop"
    /\ OthersIdleBulk

\* One pass of "for file in files".
ProcessFile ==
    /\ bpc = "loop"
    /\ file_index <= Len(files)
    /\ \E body \in {TryBody(files[file_index])} :
           /\ results' = results \o body.appended
                             \o ExceptEntries(files[file_index], body.raised)
           /\ successful_parses' = successful_parses + body.counted
    /\ file_index' = file_index + 1
    /\ UNCHANGED <<files, response, bpc, exceptBulk>>

\* The return after the loop.
ReturnBulk ==
    /\ bpc = "loop"
    /\ file_index > Len(files)
    /\ response' = [files_processed |-> Len(files),
                    files_successful |-> successful_parses,
                    detailed_results |-> results]
    /\ bpc' = "returned"
    /\ UNCHANGED <<files, file_index, results, successful_parses, exceptBulk>>

NextBulk == ProcessFile \/ ReturnBulk

SpecBulk == InitBulk /\ [][NextBulk]_vars

Parses(file) == EndsWith(LowerSeq(file.filename), <<".", "p", "d", "f">>) /\ file.fate = "ok"

\* C7: batch isolation: whatever fails for one file, every file of the batch gets
\* exactly one entry in detailed_results, in input order; a file that parses
\* succeeds whatever failed before it; files_successful is the number of entries
\* with success true.
C7_BatchIsolation ==
    /\ (bpc = "loop") => Len(results) = file_index - 1
    /\ (bpc = "returned") =>
        /\ Len(response.detailed_results) = Len(files)
        /\ \A i \in DOMAIN files :
               /\ response.detailed_results[i].filename = files[i].filename
               /\ response.detailed_results[i].success = Parses(files[i])
        /\ response.files_successful =
               Cardinality({i \in DOMAIN response.detailed_results :
                               response.detailed_results[i].success})

C7_Witness ==
    /\ bpc = "returned"
    /\ Len(files) = 3
    /\ files[1].fate = "export_error" /\ files[1].filename = S_FileName
    /\ files[2].fate = "invalid" /\ files[2].filename = S_FileName
    /\ Parses(files[3])
    /\ Len(response.detailed_results) = 3
    /\ ~response.detailed_results[1].success
    /\ response.detailed_results[3].success
    /\ response.files_successful = 1

(***************************************************************************)
(* send_webhook: up to MAX_ATTEMPTS POSTs of one payload, with exponential *)
(* backoff. MAX_ATTEMPTS is read from MAX_WEBHOOK_RETRIES when the module  *)
(* is loaded: none, one, the default, or the largest number tried.         *)
(***************************************************************************)
DefaultMaxAttempts == 5

BACKOFF_BASE == 2

IntValue(n) == [type |-> "int", value |-> n]

\* What requests.post does: a response with a status code, or an exception.
Status(code) == [kind |-> "status", status_code |-> code]

RequestException == [kind |-> "exception", status_code |-> 0]

Responses == {Status(code) : code \in {200, 399, 404, 500}} \cup {RequestException}

\* A plausible slip: the cap of the backoff dropped.
SleepTimeUncapped(k) == BACKOFF_BASE ^ k

\* sleep_time = min(300, BACKOFF_BASE ** attempt).
sleep_time(k) == Min(300, BACKOFF_BASE ^ k)

InitWebhook ==
    /\ MAX_ATTEMPTS \in {0, 1, DefaultMaxAttempts, MaxRetries}
    /\ attempt = 0
    /\ responses = <<>>
    /\ sleeps = <<>>
    /\ returned = NotReturned
    /\ wpc = "loop"
    /\ OthersIdleWebhook

\* One pass of the while loop: the POST, then a return or the sleep.
Post(r) ==
    /\ wpc = "loop"
    /\ attempt < MAX_ATTEMPTS
    /\ attempt' = attempt + 1
    /\ responses' = Append(responses, r)
    /\ IF r.kind = "status" /\ 200 <= r.status_code /\ r.status_code < 300
       THEN /\ returned' = [ok |-> TRUE, status_code |-> IntValue(r.status_code)]
            /\ wpc' = "returned"
            /\ UNCHANGED sleeps
       ELSE IF r.kind = "status" /\ 400 <= r.status_code /\ r.status_code < 500
       THEN /\ returned' = [ok |-> FALSE, status_code |-> IntValue(r.status_code),
                            error |-> "r.text"]
            /\ wpc' = "returned"
            /\ UNCHANGED sleeps
       ELSE /\ sleeps' = Append(sleeps, sleep_time(attempt'))
            /\ UNCHANGED <<returned, wpc>>
    /\ UNCHANGED <<MAX_ATTEMPTS, exceptWebhook>>

\* The loop condition fails: the return after the loop.
GiveUp ==
    /\ wpc = "loop"
    /\ attempt >= MAX_ATTEMPTS
    /\ returned' = [ok |-> FALSE, status_code |-> PyNone]
    /\ wpc' = "returned"
    /\ UNCHANGED <<MAX_ATTEMPTS, attempt, responses, sleeps, exceptWebhook>>

NextWebhook == (\E r \in Responses : Post(r)) \/ GiveUp

SpecWebhook == InitWebhook /\ [][NextWebhook]_vars

\* The worker runs the function to its end: requests.post has a timeout and
\* time.sleep returns.
FairWebhook == SpecWebhook /\ WF_vars(NextWebhook)

Is2xx(r) == r.kind = "status" /\ r.status_code \in 200 .. 299

Is4xx(r) == r.kind = "status" /\ r.status_code \in 400 .. 499

Final(r) == Is2xx(r) \/ Is4xx(r)

\* What the claim says of every state of a call.
WebhookContract ==
    /\ attempt = Len(responses)
    /\ attempt <= MAX_ATTEMPTS
    /\ \A i \in 1 .. (Len(responses) - 1) : ~Final(responses[i])
    /\ (wpc = "loop") => \A i \in DOMAIN responses : ~Final(responses[i])
    /\ sleeps = [k \in 1 .. Cardinality({i \in DOMAIN responses : ~Final(responses[i])})
                   |-> IF 2 ^ k < 300 THEN 2 ^ k ELSE 300]
    /\ (wpc = "returned") =>
           IF responses # <<>> /\ Final(responses[Len(responses)])
           THEN /\ returned.ok = Is2xx(responses[Len(responses)])
                /\ returned.status_code = IntValue(responses[Len(responses)].status_code)
           ELSE /\ attempt = MAX_ATTEMPTS
                /\ returned = [ok |-> FALSE, status_code |-> PyNone]

\* C19: send_webhook always terminates, after at most MAX_ATTEMPTS POSTs, for
\* any sequence of responses and exceptions; it returns at the first 2xx
\* (ok true) or 4xx (ok false) response without a further attempt, retries only
\* after another status or an exception, and sleeps min(300, 2^k) seconds after
\* the failed attempt k.
C19_WebhookTerminates == []WebhookContract /\ <>(wpc = "returned")

\* Every attempt failed: the ninth sleep is capped at 300 seconds.
C19_Witness ==
    /\ wpc = "returned"
    /\ MAX_ATTEMPTS >= 9
    /\ attempt = MAX_ATTEMPTS
    /\ Len(sleeps) = MAX_ATTEMPTS
    /\ sleeps[8] = 256
    /\ sleeps[9] = 300
    /\ returned = [ok |-> FALSE, status_code |-> PyNone]

(***************************************************************************)
(* ParseInvoiceUseCase.execute on one upload, with each of the parser      *)
(* implementations of the repository injected. What the collaborators do   *)
(* is drawn step by step: validate_file passes or raises, the temporary    *)
(* file is written or open() or write() raises, reading or parsing inside  *)
(* parser.parse raises or not, repository.save raises or not.              *)
(***************************************************************************)
Parsers == {"PdfPlumberParser", "InvoiceParser", "SimpleInvoiceParser"}

Uploads == [filename : {S_FileName, S_OtherFile}, user_id : {"u1", "u2"}]

\* f"invoice_{secrets.token_urlsafe(16)}.pdf" in tempfile.gettempdir().
SafeName == "invoice_<token>.pdf"

\* A file of the temporary directory; complete once the content is written.
TempFile(name, complete) == [name |-> name, complete |-> complete]

\* What a parser makes of a file it can read.
ParsedOk ==
    [vendor |-> S_Acme, invoice_number |-> S_4471, invoice_date |-> S_IsoDate,
     subtotal |-> Float(10000), shipping_amount |-> Float(1000),
     tax_amount |-> Float(800), total_amount |-> Float(11800),
     currency |-> S_USD, line_items |-> <<>>]

\* InvoiceParser._get_fallback_data.
fallback_data ==
    [vendor |-> S_SuperStore,
     invoice_number |-> <<"E", "R", "R", "O", "R", "-", "P", "A", "R", "S", "I", "N", "G">>,
     invoice_date |-> <<>>,
     subtotal |-> Float(0), shipping_amount |-> Float(0),
     tax_amount |-> Float(0), total_amount |-> Float(0),
     currency |-> S_USD, line_items |-> <<>>]

\* SimpleInvoiceParser.parse: the same data whatever the file.
SimpleData ==
    [vendor |-> <<"V", "e", "n", "d", "o", "r", " ", "C", "o", "r", "p">>,
     invoice_number |->
         <<"I", "N", "V", "-", "S", "I", "M", "P", "L", "E", "-", "0", "0", "1">>,
     invoice_date |-> <<"2", "0", "2", "4", "-", "0", "1", "-", "0", "1">>,
     subtotal |-> Float(90000), shipping_amount |-> Float(5000),
     tax_amount |-> Float(5000), total_amount |-> Float(100000),
     currency |-> S_USD,
     line_items |-> <<[description |-> <<"S", "e", "r", "v", "i", "c", "e", " ", "F", "e", "e">>,
                       quantity |-> 1, unit_price |-> Float(100000),
                       amount |-> Float(100000)]>>]

\* The three dicts execute returns on a failure.
ParsingFailed == [success |-> FALSE, message |-> "Failed to parse invoice content"]

InvoiceParsingFailed == [success |-> FALSE, message |-> "Failed to parse invoice"]

ProcessingFailed == [success |-> FALSE, message |-> "Failed to process invoice file"]

\* parser.parse(temp_path) when reading or parsing raises inside it:
\* PdfPlumberParser re-raises as ParsingFailedError, InvoiceParser catches the
\* exception and returns the fallback object, SimpleInvoiceParser never opens
\* the file.
ParseOutcome(implementation, reading) ==
    IF implementation = "SimpleInvoiceParser"
    THEN [raised |-> FALSE, data |-> SimpleData]
    ELSE IF reading = "ok" THEN [raised |-> FALSE, data |-> ParsedOk]
    ELSE IF implementation = "InvoiceParser"
    THEN [raised |-> FALSE, data |-> fallback_data]
    ELSE [raised |-> TRUE, data |-> None]

\* A plausible slip: the cleanup left out.
CleanupNothing(dir, file_path) == dir

\* SecureFileHandler.cleanup_temp_file: os.remove if the path exists.
cleanup_temp_file(dir, file_path) == {f \in dir : f.name # file_path}

InitUse ==
    /\ parser \in Parsers
    /\ upload \in Uploads
    /\ tmpdir = {}
    /\ temp_path = None
    /\ parser_raised = FALSE
    /\ parsed_dict = None
    /\ repository = <<>>
    /\ executed = NotReturned
    /\ upc = "validate"
    /\ OthersIdleUse

\* await self.file_handler.validate_file(...): an InvoiceParsingError (type or
\* size) or another exception is caught by the outer handlers.
ValidateFile(outcome) ==
    /\ upc = "validate"
    /\ IF outcome = "ok"
       THEN upc' = "create" /\ UNCHANGED executed
       ELSE /\ executed' = IF outcome = "InvoiceParsingError"
                           THEN InvoiceParsingFailed ELSE ProcessingFailed
            /\ upc' = "returned"
    /\ UNCHANGED <<parser, upload, tmpdir, temp_path, parser_raised, parsed_dict,
                   repository, exceptUse>>

\* create_secure_temp_file: open(temp_path, "wb") creates the file and write
\* fills it; when either raises, temp_path is never assigned and the outer
\* handler answers.
CreateSecureTempFile(outcome) ==
    /\ upc = "create"
    /\ IF outcome = "written"
       THEN /\ tmpdir' = tmpdir \cup {TempFile(SafeName, TRUE)}
            /\ temp_path' = SafeName
            /\ upc' = "parse"
            /\ UNCHANGED executed
       ELSE /\ tmpdir' = IF outcome = "write_raises"
                         THEN tmpdir \cup {TempFile(SafeName, FALSE)} ELSE tmpdir
            /\ executed' = ProcessingFailed
            /\ upc' = "returned"
            /\ UNCHANGED temp_path
    /\ UNCHANGED <<parser, upload, parser_raised, parsed_dict, repository, exceptUse>>

\* invoice_data = self.parser.parse(temp_path), to_dict and _clean_parsed_data
\* (which only orders the keys); an exception goes to the inner handler.
ParserParse(reading) ==
    /\ upc = "parse"
    /\ parser_raised' = (reading = "raises" /\ parser # "SimpleInvoiceParser")
    /\ \E out \in {ParseOutcome(parser, reading)} :
          IF out.raised
          THEN executed' = ParsingFailed /\ upc' = "finally" /\ UNCHANGED parsed_dict
          ELSE parsed_dict' = out.data /\ upc' = "save" /\ UNCHANGED executed
    /\ UNCHANGED <<parser, upload, tmpdir, temp_path, repository, exceptUse>>

\* invoice_id = self.repository.save(parsed_dict, user_id, filename), then the
\* return of the success dict; an exception goes to the inner handler.
RepositorySave(outcome) ==
    /\ upc = "save"
    /\ IF outcome = "ok"
       THEN /\ repository' = Append(repository,
                                    [invoice_data |-> parsed_dict,
                                     user_id |-> upload.user_id,
                                     filename |-> upload.filename])
            /\ executed' = [success |-> TRUE, invoice_id |-> Len(repository) + 1,
                            parsed_data |-> parsed_dict,
                            message |-> "Invoice parsed successfully"]
       ELSE /\ executed' = ParsingFailed
            /\ UNCHANGED repository
    /\ upc' = "finally"
    /\ UNCHANGED <<parser, upload, tmpdir, temp_path, parser_raised, parsed_dict,
                   exceptUse>>

\* finally: self.file_handler.cleanup_temp_file(temp_path), then the return.
Finally ==
    /\ upc = "finally"
    /\ tmpdir' = cleanup_temp_file(tmpdir, temp_path)
    /\ upc' = "returned"
    /\ UNCHANGED <<parser, upload, temp_path, parser_raised, parsed_dict, repository,
                   executed, exceptUse>>

NextUse ==
    \/ \E outcome \in {"ok", "InvoiceParsingError", "Exception"} : ValidateFile(outcome)
    \/ \E outcome \in {"written", "open_raises", "write_raises"} :
          CreateSecureTempFile(outcome)
    \/ \E reading \in {"ok", "raises"} : ParserParse(reading)
    \/ \E outcome \in {"ok", "raises"} : RepositorySave(outcome)
    \/ Finally

SpecUse == InitUse /\ [][NextUse]_vars

\* C26: a failed parse is never persisted as a success: for every parser
\* implementation, when reading or parsing the file raises inside parser.parse,
\* execute does not call repository.save and returns success = false.
C26_FailedParseNotPersisted ==
    (upc = "returned" /\ parser_raised = TRUE) =>
        /\ repository = <<>>
        /\ executed.success = FALSE

Token(kind, n) == [kind |-> kind, n |-> n]

\* The dict create_session stores under a new session id.
NewSession(n) ==
    [user_id |-> Token("anon", n), invoices |-> <<>>, datasets |-> <<>>,
     last_dataset_id |-> PyNone, stale |-> FALSE]

create_session(ss, n) == Put(ss, Token("session", n), NewSession(n))

\* get_session: None for an unknown key; a session past its timeout is deleted;
\* otherwise last_activity is set to now. [sessions, found].
get_session(ss, key) ==
    IF key \notin DOMAIN ss THEN [sessions |-> ss, found |-> FALSE]
    ELSE IF ss[key].stale
    THEN [sessions |-> [k \in DOMAIN ss \ {key} |-> ss[k]], found |-> FALSE]
    ELSE [sessions |-> ss, found |-> TRUE]

\* add_invoice: [sessions, value].
add_invoice(ss, key, invoice_data, n) ==
    The({IF ~got.found THEN [sessions |-> got.sessions, value |-> FALSE]
         ELSE [sessions |->
                   [got.sessions EXCEPT ![key].invoices =
                       Append(@, Put(invoice_data, "id", Token("inv", n)))],
               value |-> TRUE] :
         got \in {get_session(ss, key)}})

\* get_invoices: [sessions, value].
get_invoices(ss, key) ==
    The({[sessions |-> got.sessions,
          value |-> IF got.found THEN got.sessions[key].invoices ELSE <<>>] :
         got \in {get_session(ss, key)}})

\* create_dataset: [sessions, value].
create_dataset(ss, key, kind, file_names, n) ==
    The({IF ~got.found THEN [sessions |-> got.sessions, value |-> PyNone]
         ELSE [sessions |->
                   [got.sessions EXCEPT
                       ![key].datasets =
                           Append(@, [id |-> Token("ds", n), kind |-> kind,
                                      files |-> file_names, pinned |-> FALSE]),
                       ![key].last_dataset_id = Token("ds", n)],
               value |-> Token("ds", n)] :
         got \in {get_session(ss, key)}})

\* [d for d in datasets if d["id"] != dataset_id].
RECURSIVE Others(_, _)
Others(datasets, dataset_id) ==
    IF datasets = <<>> THEN <<>>
    ELSE (IF datasets[1].id # dataset_id THEN <<datasets[1]>> ELSE <<>>)
             \o Others(Tail(datasets), dataset_id)

\* A plausible slip: the pointer moved to the oldest dataset left.
LastPointerOldest(session, new_ds, dataset_id) ==
    IF session.last_dataset_id = dataset_id
    THEN IF new_ds # <<>> THEN new_ds[1].id ELSE PyNone
    ELSE session.last_dataset_id

\* The pointer after a deletion: new_ds[-1]["id"] if the deleted one was the
\* last created, None when nothing is left.
LastPointer(session, new_ds, dataset_id) ==
    IF session.last_dataset_id = dataset_id
    THEN IF new_ds # <<>> THEN new_ds[Len(new_ds)].id ELSE PyNone
    ELSE session.last_dataset_id

\* The session once new_ds is known.
Deleted(session, new_ds, dataset_id) ==
    [session EXCEPT !.datasets = new_ds,
                    !.last_dataset_id = LastPointer(session, new_ds, dataset_id)]

\* delete_dataset: [sessions, value].
delete_dataset(ss, key, dataset_id) ==
    The({IF ~got.found THEN [sessions |-> got.sessions, value |-> FALSE]
         ELSE The({IF Len(new_ds) = Len(got.sessions[key].datasets)
                   THEN [sessions |-> got.sessions, value |-> FALSE]
                   ELSE [sessions |->
                             [got.sessions EXCEPT
                                 ![key] = Deleted(@, new_ds, dataset_id)],
                         value |-> TRUE] :
                   new_ds \in {Others(got.sessions[key].datasets, dataset_id)}}) :
         got \in {get_session(ss, key)}})

\* More than session_timeout seconds pass without a call for the session.
Elapse(sid) ==
    /\ sid \in DOMAIN sessions
    /\ ~sessions[sid].stale
    /\ sessions' = [sessions EXCEPT ![sid].stale = TRUE]
    /\ UNCHANGED <<cookie, minted, reply, exceptSess>>

(***************************************************************************)
(* The methods called with a session id, as the class offers them.         *)
(***************************************************************************)
InitDatasets ==
    /\ sessions = create_session(<< >>, 1)
    /\ cookie = Token("session", 1)
    /\ minted = 1
    /\ reply = [call |-> "create_session", value |-> Token("session", 1)]
    /\ OthersIdleSess

CreateDataset(key, kind) ==
    /\ minted < MaxTokens
    /\ minted' = minted + 1
    /\ \E out \in {create_dataset(sessions, key, kind, <<S_FileName>>, minted + 1)} :
          /\ sessions' = out.sessions
          /\ reply' = [call |-> "create_dataset", value |-> out.value]
    /\ UNCHANGED <<cookie, exceptSess>>

DeleteDataset(key, dataset_id) ==
    /\ \E out \in {delete_dataset(sessions, key, dataset_id)} :
          /\ sessions' = out.sessions
          /\ reply' = [call |-> "delete_dataset", value |-> out.value]
    /\ UNCHANGED <<cookie, minted, exceptSess>>

NextDatasets ==
    \/ \E kind \in {"single", "bulk"} : CreateDataset(cookie, kind)
    \/ \E n \in 1 .. MaxTokens : DeleteDataset(cookie, Token("ds", n))
    \/ \E n \in 1 .. MaxTokens : Elapse(Token("session", n))

SpecDatasets == InitDatasets /\ [][NextDatasets]_vars

\* C29: after any sequence of create_dataset and delete_dataset calls on a live
\* session, last_dataset_id is None exactly when the session has no datasets,
\* and otherwise is the id of the most recently created dataset still present:
\* it never refers to a deleted dataset.
C29_LastDatasetPointer ==
    \A sid \in DOMAIN sessions :
        \A session \in {sessions[sid]} :
            /\ (session.last_dataset_id = PyNone) <=> (session.datasets = <<>>)
            /\ (session.datasets # <<>>) =>
                   /\ \E i \in DOMAIN session.datasets :
                          session.datasets[i].id = session.last_dataset_id
                   /\ \A i \in DOMAIN session.datasets :
                          session.datasets[i].id.n <= session.last_dataset_id.n

\* The dataset created last was deleted and an older one is pointed at, with
\* the oldest still there.
C29_Witness ==
    /\ reply.call = "delete_dataset"
    /\ reply.value = TRUE
    /\ cookie \in DOMAIN sessions
    /\ Len(sessions[cookie].datasets) = 2
    /\ sessions[cookie].last_dataset_id = sessions[cookie].datasets[2].id
    /\ sessions[cookie].last_dataset_id.n < minted

(***************************************************************************)
(* The session endpoints of main.py, called by one client that sends the   *)
(* cookie it was given or none. Each runs get_current_session first.       *)
(***************************************************************************)
\* get_current_session: the session of the cookie, or a new session and a new
\* cookie when there is no cookie or get_session finds nothing. n is the next
\* token; live tells that the cookie's session was found.
get_current_session(ss, sent, n) ==
    The({IF sent # PyNone /\ got.found
         THEN [sessions |-> got.sessions, cookie |-> sent, live |-> TRUE, minted |-> n - 1]
         ELSE [sessions |-> create_session(got.sessions, n),
               cookie |-> Token("session", n), live |-> FALSE, minted |-> n] :
         got \in {IF sent = PyNone THEN [sessions |-> ss, found |-> FALSE]
                  ELSE get_session(ss, sent)}})

\* The parsed_dict of parse_invoice_stateless: sample values and the file name.
StatelessParsed(filename) ==
    [vendor |-> <<"S", "a", "m", "p", "l", "e", " ", "V", "e", "n", "d", "o", "r">>,
     invoice_number |-> <<"I", "N", "V", "-", "0", "0", "1">>,
     total_amount |-> Float(11800), currency |-> S_USD, filename |-> filename]

\* The body of parse_invoice_stateless once the session is known: every
\* exception, an HTTPException included, leaves through the outer handler as a
\* 500. add_invoice and create_dataset are called with session["user_id"].
StatelessBody(cur, filename, readable) ==
    IF ~EndsWith(LowerSeq(filename), <<".", "p", "d", "f">>) \/ ~readable
    THEN [sessions |-> cur.sessions, minted |-> cur.minted, status_code |-> 500]
    ELSE The({IF ~added.value
              THEN [sessions |-> added.sessions, minted |-> cur.minted,
                    status_code |-> 500]
              ELSE [sessions |->
                        create_dataset(added.sessions, user_id, "single", <<filename>>,
                                       cur.minted + 2).sessions,
                    minted |-> cur.minted + 2, status_code |-> 200] :
              user_id \in {cur.sessions[cur.cookie].user_id},
              added \in {add_invoice(cur.sessions, cur.sessions[cur.cookie].user_id,
                                     StatelessParsed(filename), cur.minted + 1)}})

InitSession ==
    /\ sessions = << >>
    /\ cookie = PyNone
    /\ minted = 0
    /\ reply = [endpoint |-> "none"]
    /\ OthersIdleSess

\* POST /api/invoices/parse-stateless.
parse_invoice_stateless(with_cookie, filename, readable) ==
    /\ minted + 3 <= MaxTokens
    /\ \E cur \in {get_current_session(sessions, IF with_cookie THEN cookie ELSE PyNone,
                                       minted + 1)} :
          \E out \in {StatelessBody(cur, filename, readable)} :
              /\ sessions' = out.sessions
              /\ cookie' = cur.cookie
              /\ minted' = out.minted
              /\ reply' = [endpoint |-> "parse-stateless", live |-> cur.live,
                           filename |-> filename, readable |-> readable,
                           status_code |-> out.status_code]
    /\ UNCHANGED exceptSess

\* GET /api/invoices/session.
get_session_invoices(with_cookie) ==
    /\ minted + 1 <= MaxTokens
    /\ \E cur \in {get_current_session(sessions, IF with_cookie THEN cookie ELSE PyNone,
                                       minted + 1)} :
          \E out \in {get_invoices(cur.sessions, cur.sessions[cur.cookie].user_id)} :
              /\ sessions' = out.sessions
              /\ cookie' = cur.cookie
              /\ minted' = cur.minted
              /\ reply' = [endpoint |-> "session", live |-> cur.live,
                           invoices |-> out.value, status_code |-> 200]
    /\ UNCHANGED exceptSess

NextSession ==
    \/ \E with_cookie \in BOOLEAN, filename \in {S_FileName, S_OtherFile},
          readable \in BOOLEAN : parse_invoice_stateless(with_cookie, filename, readable)
    \/ \E with_cookie \in BOOLEAN : get_session_invoices(with_cookie)
    \/ \E n \in 1 .. MaxTokens : Elapse(Token("session", n))

SpecSession == InitSession /\ [][NextSession]_vars

\* C27: an invoice parsed through the parse-stateless endpoint by a client with
\* a live session is appended to that session's invoice list: the request
\* succeeds and, while the session lives, get_invoices for it returns the
\* invoice.
C27_InvoiceAddedToSession ==
    (/\ reply.endpoint = "parse-stateless"
     /\ reply.live
     /\ reply.readable
     /\ EndsWith(LowerSeq(reply.filename), <<".", "p", "d", "f">>)) =>
        /\ reply.status_code = 200
        /\ (cookie \in DOMAIN sessions /\ ~sessions[cookie].stale) =>
               \E i \in DOMAIN get_invoices(sessions, cookie).value :
                   get_invoices(sessions, cookie).value[i].filename = reply.filename

====
